---- MODULE Spec2Model ----
(***************************************************************************)
(* A model of the subtitle editor (lauris-creator/Subtitle-tool): the      *)
(* timecode arithmetic, the text segmentation, the handlers of the         *)
(* application component that edit, split and merge segments, and the      *)
(* cascade duration planner.                                               *)
(*                                                                         *)
(* Representation.                                                         *)
(*  - A timecode string "HH:MM:SS,mmm" is the tuple <<HH, MM, SS, mmm>>.   *)
(*  - A number of seconds is an integer number of milliseconds.  The       *)
(*    source computes in IEEE doubles: the floor formatter                 *)
(*    secondsToTimecode loses a millisecond on the doubles listed in       *)
(*    FloorLost and AddFloorLost, and is exact on the 125 ms grid.  A      *)
(*    split point is the exact fraction rounded half up to a whole         *)
(*    millisecond, as Math.round does.                                     *)
(*  - A text is a sequence of one-character strings.                       *)
(*  - A JavaScript array of objects is a sequence of records.  Code that   *)
(*    assigns to a field of an element of a shallow copy changes the       *)
(*    caller's element too: such a function is modelled as returning the   *)
(*    array it leaves behind next to its result.                           *)
(***************************************************************************)
EXTENDS Integers, Sequences, FiniteSets, TLC

VARIABLES
  translatedSubtitles,  \* the document: a sequence of Subtitle records
  previousSubtitles,    \* the global undo slot: a document, or Null
  cascadePreview,       \* the last cascade plan shown, or Null
  minDurationSeconds,   \* configuration (ms)
  maxDurationSeconds,   \* configuration (ms)
  maxTotalChars,        \* configuration
  maxLineChars,         \* configuration
  filters,              \* the view filters that are switched on
  before,               \* the document as it was when the last handler started
  last,                 \* what the last handler was and what it was applied to
  ops                   \* number of handlers run so far

vars == <<translatedSubtitles, previousSubtitles, cascadePreview,
          minDurationSeconds, maxDurationSeconds, maxTotalChars, maxLineChars,
          filters, before, last, ops>>

\* An absent value (null, undefined) is Null; a value v that may be absent
\* is held as Some(v), and The(x) is the value held.
Null == <<>>
Some(v) == <<v>>
The(x) == x[1]

(***************************************************************************)
(* Small helpers on numbers and sequences.                                 *)
(***************************************************************************)
Min(a, b) == IF a < b THEN a ELSE b
Max(a, b) == IF a > b THEN a ELSE b
Abs(a) == IF a < 0 THEN 0 - a ELSE a

\* Array.prototype.findIndex with the predicate s.id === id; 0 for -1.
findIndex(subtitles, id) ==
  IF \E i \in 1..Len(subtitles) : subtitles[i].id = id
  THEN CHOOSE i \in 1..Len(subtitles) :
         /\ subtitles[i].id = id
         /\ \A j \in 1..(i - 1) : subtitles[j].id # id
  ELSE 0

(***************************************************************************)
(* Timecode arithmetic.                                                    *)
(***************************************************************************)
\* hours*3600 + minutes*60 + seconds + ms/1000, in milliseconds.
timecodeToSeconds(timecode) ==
  timecode[1] * 3600000 + timecode[2] * 60000 + timecode[3] * 1000 + timecode[4]

\* The doubles on which the floor chain of secondsToTimecode loses one
\* millisecond, among the times of TimecodeSamples and the times on the
\* 125 ms grid, which are all that the specifications hand to it.  A double
\* is named by the number of milliseconds it stands for.  FloorLost names the
\* results of timecodeToSeconds: at 1001, hours*3600 + minutes*60 + seconds +
\* ms/1000 is the double 1.000999999999999889, (seconds % 1) * 1000 is
\* 0.99999999999988987 and Math.floor gives 0.  AddFloorLost names the sums
\* timecodeToSeconds(timecode) + secondsToAdd by <<timecode, secondsToAdd>>.
\* The times on the 125 ms grid are binary fractions and lose nothing.
FloorLost ==
  {1001, 59001, 59998, 3540002, 3540999, 3541002, 3541999, 3599002,
    3599999, 3600002, 3600999, 3601002, 3601999, 3659002, 3659999, 7140998,
    7140999, 7141998, 7141999, 7199998, 7199999 }

AddFloorLost ==
  {<<1, 1000>>, <<1000, 1>>, <<1001, 1>>, <<1001, 500>>, <<1001, 1000>>,
    <<1002, 1>>, <<1002, 1000>>, <<1250, 1>>, <<1500, 1>>, <<1998, 1>>,
    <<59000, 1>>, <<59001, 1>>, <<59001, 500>>, <<59001, 1000>>,
    <<59250, 1>>, <<59500, 1>>, <<59998, 1>>, <<59998, 500>>,
    <<59998, 1000>>, <<3540002, 500>>, <<3540002, 1000>>, <<3540999, 500>>,
    <<3540999, 1000>>, <<3541002, 500>>, <<3541002, 1000>>,
    <<3541999, 500>>, <<3541999, 1000>>, <<3599002, 500>>,
    <<3599002, 1000>>, <<3599999, 500>>, <<3599999, 1000>>,
    <<3600002, 500>>, <<3600002, 1000>>, <<3600999, 500>>,
    <<3600999, 1000>>, <<3601002, 500>>, <<3601002, 1000>>,
    <<3601999, 500>>, <<3601999, 1000>>, <<3659002, 500>>,
    <<3659002, 1000>>, <<3659999, 500>>, <<3659999, 1000>>, <<7140998, 1>>,
    <<7140998, 500>>, <<7140998, 1000>>, <<7140999, 500>>,
    <<7140999, 1000>>, <<7141998, 1>>, <<7141998, 500>>, <<7141998, 1000>>,
    <<7141999, 500>>, <<7141999, 1000>>, <<7199998, 1>>, <<7199998, 500>>,
    <<7199998, 1000>>, <<7199999, 500>>, <<7199999, 1000>> }

\* Math.floor(seconds / 3600), Math.floor((seconds % 3600) / 60),
\* Math.floor(seconds % 60), Math.floor((seconds % 1) * 1000); lost tells
\* whether the double lies so far below seconds that the last floor gives
\* one millisecond less.
floorChain(seconds, lost) ==
  LET shown == IF lost THEN seconds - 1 ELSE seconds
  IN << shown \div 3600000,
        (shown % 3600000) \div 60000,
        (shown % 60000) \div 1000,
        shown % 1000 >>

secondsToTimecode(seconds) == floorChain(seconds, seconds \in FloorLost)

addTimeToTimecode(timecode, secondsToAdd) ==
  floorChain(Max(0, timecodeToSeconds(timecode) + secondsToAdd),
             <<timecodeToSeconds(timecode), secondsToAdd>> \in AddFloorLost)

parseTimeToSeconds(timeString) ==
  timeString[1] * 3600000 + timeString[2] * 60000 + timeString[3] * 1000 + timeString[4]

\* formatSecondsToTime of the rational number of milliseconds num/den:
\* totalMs = Math.round(totalSeconds * 1000), then integer division and modulo.
formatSecondsToTime(num, den) ==
  LET totalMs == (2 * num + den) \div (2 * den)
  IN << totalMs \div 3600000,
        (totalMs % 3600000) \div 60000,
        (totalMs % 60000) \div 1000,
        totalMs % 1000 >>

calculateDuration(startTime, endTime) ==
  parseTimeToSeconds(endTime) - parseTimeToSeconds(startTime)

\* A variant that starts the second half one millisecond after the first ends.
splitTimeApart(startTime, endTime, ratioNum, ratioDen) ==
  [ firstEnd |->
      formatSecondsToTime(parseTimeToSeconds(startTime) * ratioDen
                            + (parseTimeToSeconds(endTime) - parseTimeToSeconds(startTime)) * ratioNum,
                          ratioDen),
    secondStart |->
      formatSecondsToTime(parseTimeToSeconds(startTime) * ratioDen
                            + (parseTimeToSeconds(endTime) - parseTimeToSeconds(startTime)) * ratioNum
                            + ratioDen,
                          ratioDen) ]

\* firstPartRatio is the fraction ratioNum/ratioDen.
splitTimeProportionally(startTime, endTime, ratioNum, ratioDen) ==
  LET startSeconds == parseTimeToSeconds(startTime)
      endSeconds == parseTimeToSeconds(endTime)
      totalDuration == endSeconds - startSeconds
      num == startSeconds * ratioDen + totalDuration * ratioNum
  IN [ firstEnd |-> formatSecondsToTime(num, ratioDen),
       secondStart |-> formatSecondsToTime(num, ratioDen) ]

\* A variant that takes two ranges as consecutive only in the order given.
timecodesOverlapOneSided(start1, end1, start2, end2) ==
  \/ timecodeToSeconds(start1) < timecodeToSeconds(end2)
       /\ timecodeToSeconds(start2) < timecodeToSeconds(end1)
  \/ timecodeToSeconds(end1) = timecodeToSeconds(start2)

timecodesOverlap(start1, end1, start2, end2) ==
  LET start1Sec == timecodeToSeconds(start1)
      end1Sec == timecodeToSeconds(end1)
      start2Sec == timecodeToSeconds(start2)
      end2Sec == timecodeToSeconds(end2)
      hasOverlap == start1Sec < end2Sec /\ start2Sec < end1Sec
      isConsecutive == (end1Sec = start2Sec) \/ (end2Sec = start1Sec)
  IN hasOverlap \/ isConsecutive

hasTimecodeConflict(subtitle, allSubtitles) ==
  \E i \in 1..Len(allSubtitles) :
    /\ allSubtitles[i].id # subtitle.id
    /\ timecodesOverlap(subtitle.startTime, subtitle.endTime,
                        allSubtitles[i].startTime, allSubtitles[i].endTime)

calculateGap(subtitle1, subtitle2) ==
  Max(0, timecodeToSeconds(subtitle2.startTime) - timecodeToSeconds(subtitle1.endTime))

(***************************************************************************)
(* Strings.  NL is the line break; \s of the regular expressions is a      *)
(* space or a line break.                                                  *)
(***************************************************************************)
NL == "\n"
SP == " "
isSpace(c) == c \in {SP, NL}

\* text.replace(/\n/g, rep)
RECURSIVE replaceNewlines(_, _)
replaceNewlines(text, rep) ==
  IF text = <<>> THEN <<>>
  ELSE (IF Head(text) = NL THEN rep ELSE <<Head(text)>>)
         \o replaceNewlines(Tail(text), rep)

\* Length of the match of /<br\s*\/?>/i at the head of text, 0 when none.
RECURSIVE brTail(_, _)
brTail(text, n) ==
  IF text = <<>> THEN 0
  ELSE IF Head(text) = ">" THEN n + 1
  ELSE IF Head(text) = "/"
       THEN (IF Len(text) >= 2 /\ text[2] = ">" THEN n + 2 ELSE 0)
  ELSE IF isSpace(Head(text)) THEN brTail(Tail(text), n + 1)
  ELSE 0

matchBr(text) ==
  IF /\ Len(text) >= 4
     /\ text[1] = "<"
     /\ text[2] \in {"b", "B"}
     /\ text[3] \in {"r", "R"}
  THEN brTail(SubSeq(text, 4, Len(text)), 3)
  ELSE 0

\* newText.replace(/<br\s*\/?>/gi, '\n')
RECURSIVE replaceBr(_)
replaceBr(text) ==
  IF text = <<>> THEN <<>>
  ELSE LET n == matchBr(text)
       IN IF n > 0
          THEN <<NL>> \o replaceBr(SubSeq(text, n + 1, Len(text)))
          ELSE <<Head(text)>> \o replaceBr(Tail(text))

\* String.prototype.trim
RECURSIVE trimStart(_)
trimStart(text) ==
  IF text # <<>> /\ isSpace(Head(text)) THEN trimStart(Tail(text)) ELSE text

RECURSIVE trimEnd(_)
trimEnd(text) ==
  IF text # <<>> /\ isSpace(text[Len(text)])
  THEN trimEnd(SubSeq(text, 1, Len(text) - 1))
  ELSE text

trim(text) == trimEnd(trimStart(text))

\* text.replace(/\s+/g, ' ')
RECURSIVE collapseSpaces(_)
collapseSpaces(text) ==
  IF text = <<>> THEN <<>>
  ELSE IF isSpace(Head(text))
       THEN <<SP>> \o collapseSpaces(trimStart(text))
       ELSE <<Head(text)>> \o collapseSpaces(Tail(text))

\* String.prototype.split(sep) for a one-character separator: the pieces
\* between the separators, the empty ones included.
RECURSIVE split(_, _)
split(text, sep) ==
  IF \E i \in 1..Len(text) : text[i] = sep
  THEN LET i == CHOOSE k \in 1..Len(text) :
                  text[k] = sep /\ \A j \in 1..(k - 1) : text[j] # sep
       IN <<SubSeq(text, 1, i - 1)>> \o split(SubSeq(text, i + 1, Len(text)), sep)
  ELSE <<text>>

\* Array.prototype.join(sep)
RECURSIVE join(_, _)
join(parts, sep) ==
  IF parts = <<>> THEN <<>>
  ELSE IF Len(parts) = 1 THEN parts[1]
  ELSE parts[1] \o sep \o join(Tail(parts), sep)

\* text.replace(/\n/g, '').length
charCountOf(text) == Len(replaceNewlines(text, <<>>))

(***************************************************************************)
(* Text segmentation.                                                      *)
(***************************************************************************)
\* A variant that keeps the last of the boundaries at the same distance.
RECURSIVE bestSplitLatest(_, _, _, _, _)
bestSplitLatest(words, totalChars, i, bestSplitIndex, bestDistance) ==
  IF i >= Len(words) THEN bestSplitIndex
  ELSE LET firstPartText == join(SubSeq(words, 1, i), <<SP>>)
           distance == Abs(2 * Len(firstPartText) - totalChars)
       IN IF bestDistance < 0 \/ distance <= bestDistance
          THEN bestSplitLatest(words, totalChars, i + 1, i, distance)
          ELSE bestSplitLatest(words, totalChars, i + 1, bestSplitIndex, bestDistance)

\* The loop "for i = 1 .. words.length-1: keep i if distance < bestDistance",
\* with the distances doubled to stay in the integers.
RECURSIVE bestSplit(_, _, _, _, _)
bestSplit(words, totalChars, i, bestSplitIndex, bestDistance) ==
  IF i >= Len(words) THEN bestSplitIndex
  ELSE LET firstPartText == join(SubSeq(words, 1, i), <<SP>>)
           distance == Abs(2 * Len(firstPartText) - totalChars)
       IN IF bestDistance < 0 \/ distance < bestDistance
          THEN bestSplit(words, totalChars, i + 1, i, distance)
          ELSE bestSplit(words, totalChars, i + 1, bestSplitIndex, bestDistance)

\* firstRatio is the pair <<numerator, denominator>>.
splitTextIntelligently(text) ==
  LET cleanText == trim(replaceNewlines(text, <<SP>>))
      words == split(cleanText, SP)
  IN IF Len(words) = 1
     THEN [ firstPart |-> text, secondPart |-> <<>>, firstRatio |-> <<1, 1>> ]
     ELSE LET bestSplitIndex == bestSplit(words, Len(cleanText), 1, 0, -1)
              firstPart == join(SubSeq(words, 1, bestSplitIndex), <<SP>>)
              secondPart == join(SubSeq(words, bestSplitIndex + 1, Len(words)), <<SP>>)
              firstPartChars == Len(firstPart)
              totalOriginalChars == firstPartChars + Len(secondPart)
          IN [ firstPart |-> firstPart,
               secondPart |-> secondPart,
               firstRatio |-> IF totalOriginalChars > 0
                              THEN <<firstPartChars, totalOriginalChars>>
                              ELSE <<1, 2>> ]

splitLineIntelligently(line, maxChars) ==
  IF Len(line) <= maxChars THEN <<line>>
  ELSE LET words == split(trim(line), SP)
       IN IF Len(words) = 1 THEN <<line>>
          ELSE LET bestSplitIndex == bestSplit(words, Len(line), 1, 0, -1)
                   firstPart == join(SubSeq(words, 1, bestSplitIndex), <<SP>>)
                   secondPart == join(SubSeq(words, bestSplitIndex + 1, Len(words)), <<SP>>)
               IN SelectSeq(<<firstPart, secondPart>>, LAMBDA part : Len(trim(part)) > 0)

MinSplitChars == 10

validateSplit(text) ==
  LET words == split(trim(replaceNewlines(text, <<SP>>)), SP)
  IN Len(words) >= 2 /\ Len(trim(text)) > MinSplitChars

\* cleanSpaces, and the same chain written inline in handleMergeSubtitleWithNext:
\* .replace(/\s+/g, ' ').replace(/\s*\n\s*/g, ' ').trim()
cleanSpaces(text) == trim(collapseSpaces(text))

(***************************************************************************)
(* Segments.  A Subtitle record has the fields id, startTime, endTime,     *)
(* text, charCount, isLong, duration, isTooShort, isTooLong,               *)
(* hasTimecodeConflict, previousText (Null when unset), recentlyEdited and *)
(* canUndo.  The fields the handlers only write (editedAt,                 *)
(* previousStartTime, previousEndTime) are left out.                       *)
(***************************************************************************)
\* What parseSrt pushes for one well-formed block.
parsedSubtitle(id, startTime, endTime, text) ==
  [ id |-> id, startTime |-> startTime, endTime |-> endTime, text |-> text,
    charCount |-> 0, isLong |-> FALSE, duration |-> 0,
    isTooShort |-> FALSE, isTooLong |-> FALSE, hasTimecodeConflict |-> FALSE,
    previousText |-> Null, recentlyEdited |-> FALSE, canUndo |-> FALSE ]

\* The map of handleFileUpload over the parsed segments, and of the effect
\* that runs when a limit changes, under the limits given.
recalculateWith(subs, totalChars, minDuration, maxDuration) ==
  [ i \in 1..Len(subs) |->
      LET sub == subs[i]
          charCount == charCountOf(sub.text)
          duration == calculateDuration(sub.startTime, sub.endTime)
      IN [ sub EXCEPT
             !.charCount = charCount,
             !.isLong = charCount > totalChars,
             !.duration = duration,
             !.isTooShort = duration < minDuration,
             !.isTooLong = duration > maxDuration,
             !.hasTimecodeConflict = hasTimecodeConflict(sub, subs) ] ]

recalculate(subs) ==
  recalculateWith(subs, maxTotalChars, minDurationSeconds, maxDurationSeconds)

\* A variant that leaves the ids as they are.
keptIds(newSubtitles) == newSubtitles

\* newSubtitles.map((sub, index) => ({ ...sub, id: index + 1 }))
renumberedSubtitles(newSubtitles) ==
  [ i \in 1..Len(newSubtitles) |-> [ newSubtitles[i] EXCEPT !.id = i ] ]

\* subs.map(s => ({ ...s, hasTimecodeConflict: hasTimecodeConflict(s, subs) }))
recomputed(subs) ==
  [ i \in 1..Len(subs) |->
      [ subs[i] EXCEPT !.hasTimecodeConflict = hasTimecodeConflict(subs[i], subs) ] ]

\* ids.sort((a, b) => a - b)
RECURSIVE sortAscending(_)
sortAscending(ids) ==
  IF ids = <<>> THEN <<>>
  ELSE LET k == CHOOSE i \in 1..Len(ids) : \A j \in 1..Len(ids) : ids[i] <= ids[j]
       IN <<ids[k]>> \o sortAscending(SubSeq(ids, 1, k - 1) \o SubSeq(ids, k + 1, Len(ids)))

lineLengthExceeded(sub) ==
  LET lines == split(sub.text, NL)
  IN \E k \in 1..Len(lines) : Len(lines[k]) > maxLineChars

\* The predicate of the filter chain, without the sticky recentlyEdited test.
matchesFilter(sub) ==
  IF "errors" \in filters /\ "longLines" \in filters
  THEN sub.isLong \/ lineLengthExceeded(sub)
  ELSE IF "errors" \in filters THEN sub.isLong
  ELSE IF "longLines" \in filters THEN lineLengthExceeded(sub)
  ELSE IF "tooShort" \in filters THEN sub.isTooShort
  ELSE IF "tooLong" \in filters THEN sub.isTooLong
  ELSE IF "conflicts" \in filters THEN sub.hasTimecodeConflict
  ELSE FALSE

\* hasFormatErrors: the trimmed text starts with a punctuation mark or a
\* closing bracket, or ends with an opening bracket.
hasFormatErrors(text) ==
  LET trimmedText == trim(text)
  IN /\ trimmedText # <<>>
     /\ \/ Head(trimmedText) \in { ".", ",", ";", ":", "!", "?", "-" }
        \/ Head(trimmedText) \in { ")", "]", "}", ">" }
        \/ trimmedText[Len(trimmedText)] \in { "(", "[", "{", "<" }

\* The ids the format-error filter shows: the segments edited a moment ago or
\* with a format error, and the segments next to them.
formatErrorSubtitleIds(doc) ==
  { doc[k].id : k \in { k \in 1..Len(doc) :
      \E i \in { k - 1, k, k + 1 } \cap (1..Len(doc)) :
        doc[i].recentlyEdited \/ hasFormatErrors(doc[i].text) } }

\* The memo filteredSubtitles, as the positions of the document it keeps.
\* The format-error filter exists in the revision that has the bulk merge.
filteredSubtitles(doc) ==
  IF filters = {} THEN [ i \in 1..Len(doc) |-> i ]
  ELSE IF "formatErrors" \in filters
  THEN SelectSeq([ i \in 1..Len(doc) |-> i ],
                 LAMBDA i : doc[i].id \in formatErrorSubtitleIds(doc))
  ELSE SelectSeq([ i \in 1..Len(doc) |-> i ],
                 LAMBDA i : doc[i].recentlyEdited \/ matchesFilter(doc[i]))

\* The filter the later handlers recompute inside their updater
\* (currentFilteredSubtitles), as positions of prev.
currentFilteredSubtitles(prev) ==
  IF filters \ {"formatErrors"} = {} THEN [ i \in 1..Len(prev) |-> i ]
  ELSE SelectSeq([ i \in 1..Len(prev) |-> i ], LAMBDA i : matchesFilter(prev[i]))

(***************************************************************************)
(* Handlers of the application component: each is the function the handler *)
(* passes to the state setter, from the document to the next document.     *)
(***************************************************************************)
handleUpdateTimecode(doc, id, newStartTime, newEndTime) ==
  [ i \in 1..Len(doc) |->
      IF doc[i].id = id
      THEN LET updatedSub ==
                 [ doc[i] EXCEPT
                     !.startTime = newStartTime,
                     !.endTime = newEndTime,
                     !.duration = calculateDuration(newStartTime, newEndTime),
                     !.isTooShort = calculateDuration(newStartTime, newEndTime) < minDurationSeconds,
                     !.isTooLong = calculateDuration(newStartTime, newEndTime) > maxDurationSeconds,
                     !.recentlyEdited = TRUE,
                     !.canUndo = TRUE ]
               others == [ j \in 1..Len(doc) |-> IF doc[j].id = id THEN updatedSub ELSE doc[j] ]
           IN [ updatedSub EXCEPT !.hasTimecodeConflict = hasTimecodeConflict(updatedSub, others) ]
      ELSE doc[i] ]

handleUpdateSubtitle(doc, id, newText) ==
  [ i \in 1..Len(doc) |->
      IF doc[i].id = id
      THEN [ doc[i] EXCEPT
               !.previousText = Some(doc[i].text),
               !.text = replaceBr(newText),
               !.charCount = charCountOf(newText),
               !.isLong = charCountOf(newText) > maxTotalChars,
               !.duration = calculateDuration(doc[i].startTime, doc[i].endTime),
               !.isTooShort = calculateDuration(doc[i].startTime, doc[i].endTime) < minDurationSeconds,
               !.isTooLong = calculateDuration(doc[i].startTime, doc[i].endTime) > maxDurationSeconds,
               !.recentlyEdited = TRUE,
               !.canUndo = TRUE ]
      ELSE doc[i] ]

\* "sub.previousText" is falsy when unset and when it is the empty string.
handleUndoSubtitle(doc, id) ==
  [ i \in 1..Len(doc) |->
      LET sub == doc[i]
      IN IF sub.id = id /\ sub.previousText # Null /\ The(sub.previousText) # <<>>
         THEN LET charCount == charCountOf(The(sub.previousText))
                  duration == calculateDuration(sub.startTime, sub.endTime)
              IN [ sub EXCEPT
                     !.text = The(sub.previousText),
                     !.charCount = charCount,
                     !.isLong = charCount > maxTotalChars,
                     !.duration = duration,
                     !.isTooShort = duration < minDurationSeconds,
                     !.isTooLong = duration > maxDurationSeconds,
                     !.previousText = Null,
                     !.canUndo = FALSE,
                     !.recentlyEdited = FALSE ]
         ELSE sub ]

inFilteredView(doc, sub) ==
  LET view == filteredSubtitles(doc)
  IN \E k \in 1..Len(view) : doc[view[k]].id = sub.id

handleRemoveBreaksFromFiltered(doc) ==
  [ i \in 1..Len(doc) |->
      LET sub == doc[i]
      IN IF inFilteredView(doc, sub) /\ (\E k \in 1..Len(sub.text) : sub.text[k] = NL)
         THEN LET singleLineText == replaceNewlines(sub.text, <<SP>>)
                  charCount == Len(singleLineText)
                  duration == calculateDuration(sub.startTime, sub.endTime)
              IN [ sub EXCEPT
                     !.text = singleLineText,
                     !.charCount = charCount,
                     !.isLong = charCount > maxTotalChars,
                     !.duration = duration,
                     !.isTooShort = duration < minDurationSeconds,
                     !.isTooLong = duration > maxDurationSeconds,
                     !.hasTimecodeConflict = hasTimecodeConflict(sub, doc),
                     !.recentlyEdited = TRUE,
                     !.canUndo = TRUE,
                     !.previousText = Some(sub.text) ]
         ELSE sub ]

\* lines.flatMap(line => splitLineIntelligently(line, maxLineChars))
RECURSIVE flatMapSplit(_)
flatMapSplit(lines) ==
  IF lines = <<>> THEN <<>>
  ELSE splitLineIntelligently(Head(lines), maxLineChars) \o flatMapSplit(Tail(lines))

handleSplitFilteredLines(doc) ==
  [ i \in 1..Len(doc) |->
      LET sub == doc[i]
      IN IF inFilteredView(doc, sub) /\ lineLengthExceeded(sub)
         THEN LET newText == join(flatMapSplit(split(sub.text, NL)), <<NL>>)
                  newCharCount == charCountOf(newText)
                  duration == calculateDuration(sub.startTime, sub.endTime)
              IN [ sub EXCEPT
                     !.text = newText,
                     !.charCount = newCharCount,
                     !.isLong = newCharCount > maxTotalChars,
                     !.duration = duration,
                     !.isTooShort = duration < minDurationSeconds,
                     !.isTooLong = duration > maxDurationSeconds,
                     !.hasTimecodeConflict = hasTimecodeConflict(sub, doc),
                     !.recentlyEdited = TRUE,
                     !.canUndo = TRUE,
                     !.previousText = Some(sub.text) ]
         ELSE sub ]

\* The object literals firstSubtitle and secondSubtitle of the split handlers.
firstSubtitle(subtitle, splitResult, timeResult) ==
  [ subtitle EXCEPT
      !.text = splitResult.firstPart,
      !.endTime = timeResult.firstEnd,
      !.charCount = charCountOf(splitResult.firstPart),
      !.isLong = charCountOf(splitResult.firstPart) > maxTotalChars,
      !.duration = calculateDuration(subtitle.startTime, timeResult.firstEnd),
      !.isTooShort = calculateDuration(subtitle.startTime, timeResult.firstEnd) < minDurationSeconds,
      !.isTooLong = calculateDuration(subtitle.startTime, timeResult.firstEnd) > maxDurationSeconds,
      !.recentlyEdited = TRUE,
      !.canUndo = FALSE,
      !.previousText = Null ]

secondSubtitle(subtitle, splitResult, timeResult) ==
  [ subtitle EXCEPT
      !.id = subtitle.id + 1,
      !.text = splitResult.secondPart,
      !.startTime = timeResult.secondStart,
      !.charCount = charCountOf(splitResult.secondPart),
      !.isLong = charCountOf(splitResult.secondPart) > maxTotalChars,
      !.duration = calculateDuration(timeResult.secondStart, subtitle.endTime),
      !.isTooShort = calculateDuration(timeResult.secondStart, subtitle.endTime) < minDurationSeconds,
      !.isTooLong = calculateDuration(timeResult.secondStart, subtitle.endTime) > maxDurationSeconds,
      !.recentlyEdited = TRUE,
      !.canUndo = FALSE,
      !.previousText = Null ]

\* The array with the segment at subtitleIndex replaced by its two halves.
splitAt(newSubtitles, subtitleIndex, splitResult) ==
  LET subtitle == newSubtitles[subtitleIndex]
      timeResult == splitTimeProportionally(subtitle.startTime, subtitle.endTime,
                                            splitResult.firstRatio[1],
                                            splitResult.firstRatio[2])
  IN SubSeq(newSubtitles, 1, subtitleIndex - 1)
       \o << firstSubtitle(subtitle, splitResult, timeResult),
             secondSubtitle(subtitle, splitResult, timeResult) >>
       \o SubSeq(newSubtitles, subtitleIndex + 1, Len(newSubtitles))

handleSplitSubtitle(doc, id) ==
  LET subtitleIndex == findIndex(doc, id)
  IN IF subtitleIndex = 0 THEN doc
     ELSE LET splitResult == splitTextIntelligently(doc[subtitleIndex].text)
          IN IF splitResult.secondPart = <<>> THEN doc
             ELSE renumberedSubtitles(splitAt(doc, subtitleIndex, splitResult))

\* A variant that keeps the end of the first segment.
mergedKeepingEnd(current, next) ==
  [ current EXCEPT
      !.text = cleanSpaces(current.text \o <<SP>> \o next.text),
      !.recentlyEdited = TRUE,
      !.canUndo = FALSE,
      !.previousText = Null ]

\* The merged object literal of the merge handlers.
merged(current, next) ==
  LET mergedText == cleanSpaces(current.text \o <<SP>> \o next.text)
      charCount == charCountOf(mergedText)
      duration == calculateDuration(current.startTime, next.endTime)
  IN [ current EXCEPT
         !.text = mergedText,
         !.startTime = current.startTime,
         !.endTime = next.endTime,
         !.charCount = charCount,
         !.isLong = charCount > maxTotalChars,
         !.duration = duration,
         !.isTooShort = duration < minDurationSeconds,
         !.isTooLong = duration > maxDurationSeconds,
         !.recentlyEdited = TRUE,
         !.canUndo = FALSE,
         !.previousText = Null ]

\* A variant that goes on when there is no next segment and takes the text
\* and the end of the next segment as empty and as the segment's own.
handleMergeUnguarded(doc, id) ==
  LET index == findIndex(doc, id)
  IN IF index = 0 THEN doc
     ELSE recomputed(renumberedSubtitles(
            SubSeq(doc, 1, index - 1)
              \o << IF index = Len(doc)
                    THEN merged(doc[index], [ doc[index] EXCEPT !.text = <<>> ])
                    ELSE merged(doc[index], doc[index + 1]) >>
              \o SubSeq(doc, index + 2, Len(doc))))

handleMergeSubtitleWithNext(doc, id) ==
  LET index == findIndex(doc, id)
  IN IF index = 0 \/ index = Len(doc) THEN doc
     ELSE recomputed(renumberedSubtitles(
            SubSeq(doc, 1, index - 1)
              \o << merged(doc[index], doc[index + 1]) >>
              \o SubSeq(doc, index + 2, Len(doc))))

\* The members of the filtered view that the bulk split takes.
splittableSubtitles(doc) ==
  SelectSeq(filteredSubtitles(doc),
            LAMBDA i : LET words == split(trim(replaceNewlines(doc[i].text, <<SP>>)), SP)
                       IN Len(words) >= 2 /\ Len(trim(doc[i].text)) > MinSplitChars)

\* The loop "for (const subtitleId of sortedSplittableIds)".
RECURSIVE bulkSplitLoop(_, _)
bulkSplitLoop(newSubtitles, sortedSplittableIds) ==
  IF sortedSplittableIds = <<>> THEN newSubtitles
  ELSE LET subtitleIndex == findIndex(newSubtitles, Head(sortedSplittableIds))
       IN IF subtitleIndex = 0
          THEN bulkSplitLoop(newSubtitles, Tail(sortedSplittableIds))
          ELSE LET splitResult == splitTextIntelligently(newSubtitles[subtitleIndex].text)
               IN IF splitResult.secondPart = <<>>
                  THEN bulkSplitLoop(newSubtitles, Tail(sortedSplittableIds))
                  ELSE bulkSplitLoop(splitAt(newSubtitles, subtitleIndex, splitResult),
                                     Tail(sortedSplittableIds))

handleBulkSplitFiltered(doc) ==
  LET targets == splittableSubtitles(doc)
  IN IF targets = <<>> THEN doc
     ELSE renumberedSubtitles(
            bulkSplitLoop(doc, sortAscending([ k \in 1..Len(targets) |-> doc[targets[k]].id ])))

\* The loop "for (let i = 0; i < filteredIds.length - 1; i += 2)"; i counts from 1.
RECURSIVE mergePairs(_, _)
mergePairs(filteredIds, i) ==
  IF i >= Len(filteredIds) THEN <<>>
  ELSE (IF filteredIds[i + 1] = filteredIds[i] + 1
        THEN << <<filteredIds[i], filteredIds[i + 1]>> >>
        ELSE <<>>)
         \o mergePairs(filteredIds, i + 2)

\* mergePairs.reverse().forEach(...): pairs is taken from its last element.
RECURSIVE bulkMergeLoop(_, _)
bulkMergeLoop(newSubtitles, pairs) ==
  IF pairs = <<>> THEN newSubtitles
  ELSE LET pair == pairs[Len(pairs)]
           rest == SubSeq(pairs, 1, Len(pairs) - 1)
           firstIndex == findIndex(newSubtitles, pair[1])
           secondIndex == findIndex(newSubtitles, pair[2])
       IN IF firstIndex = 0 \/ secondIndex = 0
          THEN bulkMergeLoop(newSubtitles, rest)
          ELSE bulkMergeLoop(
                 SubSeq(newSubtitles, 1, firstIndex - 1)
                   \o << merged(newSubtitles[firstIndex], newSubtitles[secondIndex]) >>
                   \o SubSeq(newSubtitles, firstIndex + 1, secondIndex - 1)
                   \o SubSeq(newSubtitles, secondIndex + 1, Len(newSubtitles)),
                 rest)

\* The memo hasConsecutivePairsInFiltered that shows the bulk merge button: it
\* looks at the sorted ids of the displayed segments two at a time.
hasConsecutivePairsInFiltered(doc) ==
  LET view == filteredSubtitles(doc)
      filteredIds == sortAscending([ k \in 1..Len(view) |-> doc[view[k]].id ])
  IN /\ Len(view) >= 2
     /\ \E i \in 1..(Len(filteredIds) - 1) :
          /\ i % 2 = 1
          /\ filteredIds[i + 1] = filteredIds[i] + 1

handleBulkMergeFiltered(prev) ==
  LET view == currentFilteredSubtitles(prev)
      filteredIds == sortAscending([ k \in 1..Len(view) |-> prev[view[k]].id ])
      pairs == mergePairs(filteredIds, 1)
  IN IF Len(view) < 2 \/ pairs = <<>> THEN prev
     ELSE recomputed(renumberedSubtitles(bulkMergeLoop(prev, pairs)))

(***************************************************************************)
(* The cascade duration planner.  A step is a record [subtitleId, action,  *)
(* timeChange].  calculateCascadePlan copies the array ([...subtitles]),   *)
(* not its elements, and applyCascadeSolution assigns to the fields of the *)
(* elements: the caller's segments change.  The field "subtitles" of a     *)
(* result below is the caller's array as the call leaves it.               *)
(***************************************************************************)
Epsilon == 1

durationOf(sub) == timecodeToSeconds(sub.endTime) - timecodeToSeconds(sub.startTime)

\* First loop of findCascadeSolution: take time from the next segments.
RECURSIVE takeFromNext(_, _, _, _, _, _)
takeFromNext(subtitles, currentIndex, minDuration, i, remainingNeeded, steps) ==
  IF ~(i <= Len(subtitles) /\ remainingNeeded > 0)
  THEN [ steps |-> steps, remainingNeeded |-> remainingNeeded ]
  ELSE LET nextSubtitle == subtitles[i]
           available == durationOf(nextSubtitle) - minDuration
       IN IF available > 0
          THEN LET take == Min(remainingNeeded, available)
               IN takeFromNext(subtitles, currentIndex, minDuration, i + 1,
                    remainingNeeded - take,
                    steps \o << [ subtitleId |-> subtitles[currentIndex].id,
                                  action |-> "extend", timeChange |-> take ],
                                [ subtitleId |-> nextSubtitle.id,
                                  action |-> "shorten", timeChange |-> take ] >>)
          ELSE takeFromNext(subtitles, currentIndex, minDuration, i + 1,
                            remainingNeeded, steps)

\* Second loop of findCascadeSolution: use the gaps.
RECURSIVE useGaps(_, _, _, _)
useGaps(subtitles, i, remainingNeeded, steps) ==
  IF ~(i < Len(subtitles) /\ remainingNeeded > 0)
  THEN [ steps |-> steps, remainingNeeded |-> remainingNeeded ]
  ELSE LET current == subtitles[i]
           next == subtitles[i + 1]
           gap == calculateGap(current, next)
       IN IF gap > 0
          THEN LET useFromGap == Min(remainingNeeded, gap)
               IN useGaps(subtitles, i + 1, remainingNeeded - useFromGap,
                    steps \o << [ subtitleId |-> current.id,
                                  action |-> "extend", timeChange |-> useFromGap ],
                                [ subtitleId |-> next.id,
                                  action |-> "move", timeChange |-> useFromGap ] >>)
          ELSE useGaps(subtitles, i + 1, remainingNeeded, steps)

\* "if (remainingNeeded > 0) { second loop }" after the first loop left found.
gapsAfter(subtitles, currentIndex, found) ==
  IF found.remainingNeeded > 0
  THEN useGaps(subtitles, currentIndex, found.remainingNeeded, found.steps)
  ELSE found

\* "return remainingNeeded <= 0.001 ? { steps } : null": Some(steps), or Null.
solutionOf(found) ==
  IF found.remainingNeeded <= Epsilon THEN Some(found.steps) ELSE Null

findCascadeSolution(subtitles, currentIndex, needed, minDuration) ==
  solutionOf(gapsAfter(subtitles, currentIndex,
                       takeFromNext(subtitles, currentIndex, minDuration,
                                    currentIndex + 1, needed, <<>>)))

applyStep(subtitle, step) ==
  CASE step.action = "extend" ->
         [ subtitle EXCEPT !.endTime = addTimeToTimecode(subtitle.endTime, step.timeChange) ]
    [] step.action = "shorten" ->
         [ subtitle EXCEPT !.startTime = addTimeToTimecode(subtitle.startTime, step.timeChange) ]
    [] step.action = "move" ->
         [ subtitle EXCEPT
             !.startTime = addTimeToTimecode(subtitle.startTime, step.timeChange),
             !.endTime = addTimeToTimecode(subtitle.endTime, step.timeChange) ]

\* The array after the assignments of applyCascadeSolution.
RECURSIVE applyCascadeSolution(_, _)
applyCascadeSolution(subtitles, steps) ==
  IF steps = <<>> THEN subtitles
  ELSE LET subtitleIndex == findIndex(subtitles, Head(steps).subtitleId)
       IN IF subtitleIndex = 0
          THEN applyCascadeSolution(subtitles, Tail(steps))
          ELSE applyCascadeSolution(
                 [ subtitles EXCEPT ![subtitleIndex] = applyStep(subtitles[subtitleIndex], Head(steps)) ],
                 Tail(steps))

\* The loop "for (const subtitle of needsFixing)": needsFixing holds the
\* positions of the segments found too short at the start; the elements are
\* read as they are when their turn comes.  planStep is the body of the loop
\* once the solution for the segment is known.
RECURSIVE planLoop(_, _, _, _)
planStep(result, needsFixing, minDuration, steps, solution) ==
  IF solution # Null
  THEN planLoop(applyCascadeSolution(result, The(solution)), Tail(needsFixing),
                minDuration, steps \o The(solution))
  ELSE [ steps |-> <<>>, totalAffected |-> 0, canBeFixed |-> FALSE,
         reason |-> Some(result[Head(needsFixing)].id), subtitles |-> result ]

planLoop(result, needsFixing, minDuration, steps) ==
  IF needsFixing = <<>>
  THEN [ steps |-> steps,
         totalAffected |-> Cardinality({ steps[k].subtitleId : k \in 1..Len(steps) }),
         canBeFixed |-> TRUE, reason |-> Null, subtitles |-> result ]
  ELSE planStep(result, needsFixing, minDuration, steps,
                findCascadeSolution(result,
                                    findIndex(result, result[Head(needsFixing)].id),
                                    minDuration - durationOf(result[Head(needsFixing)]),
                                    minDuration))

calculateCascadePlan(subtitles, minDuration) ==
  LET needsFixing == SelectSeq([ i \in 1..Len(subtitles) |-> i ],
                               LAMBDA i : durationOf(subtitles[i]) < minDuration)
  IN IF needsFixing = <<>>
     THEN [ steps |-> <<>>, totalAffected |-> 0, canBeFixed |-> TRUE,
            reason |-> Null, subtitles |-> subtitles ]
     ELSE planLoop(subtitles, needsFixing, minDuration, <<>>)

DefaultMaxDuration == 7000

\* "Recalculate all properties": the map at the end of applyCascadeFix.
recalculateAll(result, minDuration) ==
  [ i \in 1..Len(result) |->
      [ result[i] EXCEPT
          !.duration = durationOf(result[i]),
          !.isTooShort = durationOf(result[i]) < minDuration,
          !.isTooLong = durationOf(result[i]) > DefaultMaxDuration,
          !.hasTimecodeConflict = hasTimecodeConflict(result[i], result),
          !.recentlyEdited = TRUE,
          !.canUndo = TRUE ] ]

\* applyCascadeFix from the plan on: the elements still are those the
\* planner assigned to, and the steps are applied to them.
applyPlan(plan, minDuration) ==
  IF ~plan.canBeFixed
  THEN [ threw |-> TRUE, value |-> <<>>, subtitles |-> plan.subtitles ]
  ELSE [ threw |-> FALSE,
         value |-> recalculateAll(applyCascadeSolution(plan.subtitles, plan.steps),
                                  minDuration),
         subtitles |-> applyCascadeSolution(plan.subtitles, plan.steps) ]

\* threw: the Error of an infeasible plan; value: the returned array.
applyCascadeFix(subtitles, minDuration) ==
  applyPlan(calculateCascadePlan(subtitles, minDuration), minDuration)

(***************************************************************************)
(* The cascade handlers of the application component.  Both pass the       *)
(* filtered elements of the document to the planner, which assigns to      *)
(* them: the document holds the same objects, so it changes with them.     *)
(***************************************************************************)
\* The elements of doc at the positions view, and doc with those elements
\* replaced by the elements of subtitles.
elementsAt(doc, view) == [ k \in 1..Len(view) |-> doc[view[k]] ]

writeBack(doc, view, subtitles) ==
  [ i \in 1..Len(doc) |->
      IF \E k \in 1..Len(view) : view[k] = i
      THEN subtitles[CHOOSE k \in 1..Len(view) : view[k] = i]
      ELSE doc[i] ]

\* plan: the value given to setCascadePreview; doc: the document afterwards.
previewed(doc, view, plan) ==
  [ plan |-> [ steps |-> plan.steps, totalAffected |-> plan.totalAffected,
               canBeFixed |-> plan.canBeFixed, reason |-> plan.reason ],
    doc |-> writeBack(doc, view, plan.subtitles) ]

handleCascadePreview(doc) ==
  previewed(doc, currentFilteredSubtitles(doc),
            calculateCascadePlan(elementsAt(doc, currentFilteredSubtitles(doc)),
                                 minDurationSeconds))

\* fixedSubtitles.forEach(fixedSub => { index = result.findIndex(...); ... })
RECURSIVE mergeFixed(_, _)
mergeFixed(result, fixedSubtitles) ==
  IF fixedSubtitles = <<>> THEN result
  ELSE LET index == findIndex(result, Head(fixedSubtitles).id)
       IN IF index = 0 THEN mergeFixed(result, Tail(fixedSubtitles))
          ELSE mergeFixed([ result EXCEPT ![index] = Head(fixedSubtitles) ],
                          Tail(fixedSubtitles))

\* The updater of handleApplyCascadeFix from the call of applyCascadeFix on.
\* prev: the array the updater was given (the one setPreviousSubtitles
\* received) as the updater leaves it; doc: the array the updater returns.
applied(left, fixed) ==
  IF fixed.threw
  THEN [ threw |-> TRUE, prev |-> left, doc |-> left ]
  ELSE [ threw |-> FALSE, prev |-> left,
         doc |-> recomputed(mergeFixed(left, fixed.value)) ]

mergedBack(prev, view, fixed) ==
  applied(writeBack(prev, view, fixed.subtitles), fixed)

handleApplyCascadeFix(prev) ==
  mergedBack(prev, currentFilteredSubtitles(prev),
             applyCascadeFix(elementsAt(prev, currentFilteredSubtitles(prev)),
                             minDurationSeconds))

(***************************************************************************)
(* The SRT codec on the text of a file.  The file and each of its lines is *)
(* a sequence of one-character strings; a timecode tuple <<HH, MM, SS,     *)
(* mmm>> is written as the twelve characters of "HH:MM:SS,mmm".  The files *)
(* have no carriage returns, so that /\r?\n/ matches a line break only.    *)
(***************************************************************************)
Digits == <<"0", "1", "2", "3", "4", "5", "6", "7", "8", "9">>

isDigit(c) == \E d \in 1..10 : Digits[d] = c

\* Number.prototype.toString of a non-negative integer
RECURSIVE toString(_)
toString(n) ==
  IF n < 10 THEN <<Digits[n + 1]>>
  ELSE toString(n \div 10) \o <<Digits[(n % 10) + 1]>>

\* String.prototype.padStart(n, '0')
padStart(text, n) ==
  IF Len(text) >= n THEN text ELSE [ i \in 1..(n - Len(text)) |-> "0" ] \o text

\* The digits a string starts with.
RECURSIVE leadingDigits(_)
leadingDigits(text) ==
  IF text # <<>> /\ isDigit(Head(text))
  THEN <<Head(text)>> \o leadingDigits(Tail(text))
  ELSE <<>>

\* The number a string of digits stands for.
RECURSIVE numberOf(_)
numberOf(digits) ==
  IF digits = <<>> THEN 0
  ELSE numberOf(SubSeq(digits, 1, Len(digits) - 1)) * 10
         + ((CHOOSE d \in 1..10 : Digits[d] = digits[Len(digits)]) - 1)

\* parseInt(text, 10), and Number(text) of a string of digits.  parseInt of a
\* string that starts with no digit is NaN, which its callers replace by 0
\* ("parseInt(...) || 0") or never get.
parseInt(text) == numberOf(leadingDigits(text))

\* The template literal of the formatters: the string a timecode tuple stands for.
timecodeString(timecode) ==
  padStart(toString(timecode[1]), 2) \o <<":">>
    \o padStart(toString(timecode[2]), 2) \o <<":">>
    \o padStart(toString(timecode[3]), 2) \o <<",">>
    \o padStart(toString(timecode[4]), 3)

\* The tuple of a timecode string: timecode.split(','), time.split(':').map(Number).
timecodeOf(timeString) ==
  LET parts == split(timeString, ",")
      time == split(parts[1], ":")
  IN << parseInt(time[1]), parseInt(time[2]), parseInt(time[3]), parseInt(parts[2]) >>

\* Position of the first "-->" of line, 0 when there is none.
indexOfArrow(line) ==
  IF \E i \in 1..(Len(line) - 2) : SubSeq(line, i, i + 2) = <<"-", "-", ">">>
  THEN CHOOSE i \in 1..(Len(line) - 2) :
         /\ SubSeq(line, i, i + 2) = <<"-", "-", ">">>
         /\ \A j \in 1..(i - 1) : SubSeq(line, j, j + 2) # <<"-", "-", ">">>
  ELSE 0

\* line.split('-->')
RECURSIVE splitArrow(_)
splitArrow(line) ==
  LET i == indexOfArrow(line)
  IN IF i = 0 THEN <<line>>
     ELSE <<SubSeq(line, 1, i - 1)>> \o splitArrow(SubSeq(line, i + 3, Len(line)))

\* srtContent.split(/\r?\n\r?\n/): the pieces between two line breaks in a row.
RECURSIVE splitBlocks(_)
splitBlocks(srtContent) ==
  IF \E i \in 1..(Len(srtContent) - 1) : srtContent[i] = NL /\ srtContent[i + 1] = NL
  THEN LET i == CHOOSE k \in 1..(Len(srtContent) - 1) :
                  /\ srtContent[k] = NL /\ srtContent[k + 1] = NL
                  /\ \A j \in 1..(k - 1) : ~(srtContent[j] = NL /\ srtContent[j + 1] = NL)
       IN <<SubSeq(srtContent, 1, i - 1)>>
            \o splitBlocks(SubSeq(srtContent, i + 2, Len(srtContent)))
  ELSE <<srtContent>>

\* /^\d+$/.test(line.trim())
isIdLine(line) ==
  /\ trim(line) # <<>>
  /\ \A i \in 1..Len(trim(line)) : isDigit(trim(line)[i])

\* Position of the first element of lines that satisfies Test, 0 when none.
firstLine(lines, Test(_)) ==
  IF \E k \in 1..Len(lines) : Test(lines[k])
  THEN CHOOSE k \in 1..Len(lines) :
         Test(lines[k]) /\ \A j \in 1..(k - 1) : ~Test(lines[j])
  ELSE 0

\* The segment a block with an id line and a timecode line is parsed to.
parsedBlock(lines, idLine, timecodeLine) ==
  LET times == splitArrow(lines[timecodeLine])
  IN parsedSubtitle(parseInt(trim(lines[idLine])),
                    timecodeOf(trim(times[1])),
                    timecodeOf(trim(times[2])),
                    join(SubSeq(lines, timecodeLine + 1, Len(lines)), <<NL>>))

\* The body of blocks.forEach: the segments pushed for one block, none or one.
parseBlock(block) ==
  IF trim(block) = <<>> THEN <<>>
  ELSE LET lines == split(block, NL)
           idLine == firstLine(lines, isIdLine)
           timecodeLine == firstLine(lines, LAMBDA line : indexOfArrow(line) > 0)
       IN IF idLine = 0 \/ timecodeLine = 0 THEN <<>>
          ELSE << parsedBlock(lines, idLine, timecodeLine) >>

\* A variant that stops at the first block it cannot parse.
RECURSIVE parseBlocksAborting(_)
parseBlocksAborting(blocks) ==
  IF blocks = <<>> THEN <<>>
  ELSE IF trim(Head(blocks)) # <<>> /\ parseBlock(Head(blocks)) = <<>> THEN <<>>
  ELSE parseBlock(Head(blocks)) \o parseBlocksAborting(Tail(blocks))

RECURSIVE parseBlocks(_)
parseBlocks(blocks) ==
  IF blocks = <<>> THEN <<>>
  ELSE parseBlock(Head(blocks)) \o parseBlocks(Tail(blocks))

\* parseSrt on the text of a file, with the conflict pass that follows the blocks.
parseSrtContent(srtContent) ==
  recomputed(parseBlocks(splitBlocks(trim(srtContent))))

\* The template literal of formatSrt.
srtBlock(id, startTime, endTime, text) ==
  toString(id) \o <<NL>>
    \o timecodeString(startTime) \o <<SP, "-", "-", ">", SP>> \o timecodeString(endTime)
    \o <<NL>> \o text

formatSrt(subtitles) ==
  join([ i \in 1..Len(subtitles) |->
           srtBlock(subtitles[i].id, subtitles[i].startTime,
                    subtitles[i].endTime, subtitles[i].text) ],
       <<NL, NL>>)
    \o <<NL>>

(***************************************************************************)
(* Inputs.                                                                 *)
(***************************************************************************)
MaxSegs == 2          \* segments of an uploaded file (editor)
MaxCascadeSegs == 3   \* segments of an uploaded file (cascade)
MaxOps == 2           \* handlers run after the upload (editor)
MaxCascadeOps == 3    \* handlers run after the upload (cascade)

word(c, n) == [ i \in 1..n |-> c ]

\* "aaaa bbbb cccc", "aaaa bbb", "aaaaaaaaaaaa", "aaaa bb\ncccc dd"
SampleTexts ==
  { word("a", 4) \o <<SP>> \o word("b", 4) \o <<SP>> \o word("c", 4),
    word("a", 4) \o <<SP>> \o word("b", 3),
    word("a", 12),
    word("a", 4) \o <<SP>> \o word("b", 2) \o <<NL>> \o word("c", 4) \o <<SP>> \o word("d", 2) }

\* What the user types into the text box: "a<br>b", "aa bb"
EditTexts ==
  { <<"a", "<", "b", "r", ">", "b">>,
    word("a", 2) \o <<SP>> \o word("b", 2) }

\* What the user types into the timecode boxes (start, end), in ms.
TimecodeInputs == { <<0, 2500>>, <<2000, 2500>> }

\* Durations of the segments of a file for the cascade planner and the gaps
\* in front of them, in ms; the limits set before the upload.
CascadeDurations == { 500, 1000, 1500, 4500 }
CascadeGaps == { 0, 500 }
CascadeLimits == { <<74, 37, 1000, 7000>>, <<74, 37, 1500, 4000>> }

\* The files uploaded: <<number lines, duration of each segment, distance
\* between the starts of two segments>>, the times in ms.  The number lines
\* are 1,2,3.. ("dense"), 10,20,30.. ("sparse") or 7,7,7.. ("same"); the
\* segments overlap, have gaps between them, or follow back to back.
FileKinds == { <<"dense", 2500, 2000>>, <<"sparse", 1500, 2000>>, <<"same", 2000, 2000>> }

uploadedId(scheme, k) ==
  CASE scheme = "dense" -> k
    [] scheme = "sparse" -> 10 * k
    [] scheme = "same" -> 7

\* <<maxTotalChars, maxLineChars, minDurationSeconds, maxDurationSeconds>>:
\* the defaults, and two settings of the limit controls.
Limits == { <<74, 37, 1000, 7000>>, <<12, 6, 1000, 7000>>, <<12, 6, 2000, 4000>> }

Filters == { "errors", "longLines", "tooShort", "tooLong", "conflicts" }

\* parseSrt on a file of n well-formed blocks.
parseSrt(n, kind, texts) ==
  [ k \in 1..n |->
      parsedSubtitle(uploadedId(kind[1], k),
                     secondsToTimecode((k - 1) * kind[3]),
                     secondsToTimecode((k - 1) * kind[3] + kind[2]),
                     texts[k]) ]

\* The document handleFileUpload stores.
handleFileUpload(subs, limits) ==
  recalculateWith(subs, limits[1], limits[3], limits[4])

\* Start of segment k of a file with the durations durs and the gaps gaps.
RECURSIVE startOf(_, _, _)
startOf(durs, gaps, k) ==
  IF k = 1 THEN gaps[1]
  ELSE startOf(durs, gaps, k - 1) + durs[k - 1] + gaps[k]

parseCascadeSrt(n, durs, gaps) ==
  [ k \in 1..n |->
      parsedSubtitle(k,
                     secondsToTimecode(startOf(durs, gaps, k)),
                     secondsToTimecode(startOf(durs, gaps, k) + durs[k]),
                     word("a", 3)) ]

(***************************************************************************)
(* The timecode utilities that exist in more than one revision, and the    *)
(* free-text normalization of a timecode typed by the user, on the         *)
(* characters of the input.                                                *)
(***************************************************************************)
\* secondsToTimecode of the revision that rounds the last field,
\* Math.round((seconds % 1) * 1000): on the doubles of TimecodeSamples the
\* product lies within 1e-9 of the whole number of milliseconds.
secondsToTimecodeRounded(seconds) ==
  << seconds \div 3600000,
     (seconds % 3600000) \div 60000,
     (seconds % 60000) \div 1000,
     seconds % 1000 >>

\* addSecondsToTimecode: whole milliseconds, then integer division and modulo.
addSecondsToTimecode(timecode, secondsToAdd) ==
  LET totalMs == timecode[1] * 3600000 + timecode[2] * 60000
                   + timecode[3] * 1000 + timecode[4]
      newTotalMs == totalMs + secondsToAdd
  IN << newTotalMs \div 3600000,
        (newTotalMs % 3600000) \div 60000,
        (newTotalMs % 60000) \div 1000,
        newTotalMs % 1000 >>

\* timecodesOverlap of src/utils/timecodeUtils.ts.
timecodesOverlapEarlier(start1, end1, start2, end2) ==
  LET start1Sec == timecodeToSeconds(start1)
      end1Sec == timecodeToSeconds(end1)
      start2Sec == timecodeToSeconds(start2)
      end2Sec == timecodeToSeconds(end2)
  IN start1Sec < end2Sec /\ start2Sec < end1Sec

\* /^\d{2}:\d{2}:\d{2},\d{3}$/.test(timecode)
isValidTimecode(timecode) ==
  /\ Len(timecode) = 12
  /\ \A i \in 1..12 :
       IF i \in {3, 6} THEN timecode[i] = ":"
       ELSE IF i = 9 THEN timecode[i] = ","
       ELSE isDigit(timecode[i])

\* The branch "if it's just numbers" of parseTimecodeInput; Null when the
\* function goes on to the next branch.
parseDigits(cleaned) ==
  IF cleaned # <<>> /\ leadingDigits(cleaned) = cleaned /\ parseInt(cleaned) < 1000000
  THEN LET num == parseInt(cleaned)
       IN Some(timecodeString(secondsToTimecode(
            IF num < 100 THEN num * 1000
            ELSE IF num < 10000 THEN ((num \div 100) * 60 + (num % 100)) * 1000
            ELSE ((num \div 10000) * 3600 + ((num % 10000) \div 100) * 60 + (num % 100)) * 1000)))
  ELSE Null

\* The branch "try to parse as HH:MM:SS or MM:SS" of parseTimecodeInput.
parseParts(input, cleaned) ==
  LET parts == split(cleaned, ":")
  IN IF Len(parts) = 2
     THEN timecodeString(secondsToTimecode(
            (parseInt(parts[1]) * 60 + parseInt(parts[2])) * 1000))
     ELSE IF Len(parts) = 3
     THEN timecodeString(secondsToTimecode(
            (parseInt(parts[1]) * 3600 + parseInt(parts[2]) * 60 + parseInt(parts[3])) * 1000))
     ELSE input

\* parseTimecodeInput of src/utils/timecodeUtils.ts.
parseTimecodeInputEarlier(input) ==
  LET cleaned == SelectSeq(input, LAMBDA c : isDigit(c) \/ c \in {":", ","})
  IN IF parseDigits(cleaned) # Null THEN The(parseDigits(cleaned))
     ELSE parseParts(input, cleaned)

parseTimecodeInput(input) ==
  IF isValidTimecode(input) THEN input ELSE parseTimecodeInputEarlier(input)

(***************************************************************************)
(* The conflict fix: the end of every conflicting segment of the filtered   *)
(* set is taken back by 1 ms.                                               *)
(***************************************************************************)
\* The totals in ms for which (seconds - 0.001) % 1 is so close to 1 that
\* Math.round gives 1000 for the millisecond field.
RoundedOver == { 1001, 8001, 32001, 256001 }

\* reduceTimecodeByOneMs with the formatter that rounds: the millisecond
\* field of the totals in RoundedOver is 1000 under the second before.
reduceTimecodeByOneMs(timecode) ==
  IF timecodeToSeconds(timecode) \in RoundedOver
  THEN LET below == secondsToTimecodeRounded(timecodeToSeconds(timecode) - 1001)
       IN << below[1], below[2], below[3], 1000 >>
  ELSE secondsToTimecodeRounded(Max(0, timecodeToSeconds(timecode) - 1))

\* The body of the loop "for (const subtitleId of sortedConflictingIds)".
reducedByOneMs(subtitle) ==
  LET newEndTime == reduceTimecodeByOneMs(subtitle.endTime)
  IN [ subtitle EXCEPT
         !.endTime = newEndTime,
         !.duration = calculateDuration(subtitle.startTime, newEndTime),
         !.isTooShort = calculateDuration(subtitle.startTime, newEndTime) < minDurationSeconds,
         !.isTooLong = calculateDuration(subtitle.startTime, newEndTime) > maxDurationSeconds,
         !.recentlyEdited = TRUE,
         !.canUndo = TRUE,
         !.previousText = Some(subtitle.text) ]

\* The loop; skipShort is the test "subtitle.duration <= minDurationSeconds:
\* continue" that one revision has.
RECURSIVE fixConflictsLoop(_, _, _)
fixConflictsLoop(newSubtitles, sortedConflictingIds, skipShort) ==
  IF sortedConflictingIds = <<>> THEN newSubtitles
  ELSE LET subtitleIndex == findIndex(newSubtitles, Head(sortedConflictingIds))
       IN IF subtitleIndex = 0
             \/ (skipShort /\ newSubtitles[subtitleIndex].duration <= minDurationSeconds)
          THEN fixConflictsLoop(newSubtitles, Tail(sortedConflictingIds), skipShort)
          ELSE fixConflictsLoop(
                 [ newSubtitles EXCEPT ![subtitleIndex] = reducedByOneMs(newSubtitles[subtitleIndex]) ],
                 Tail(sortedConflictingIds), skipShort)

\* The handler from the choice of the filtered set on.
fixedConflicts(doc, view, skipShort) ==
  LET conflictingSubtitles == SelectSeq(view, LAMBDA i : doc[i].hasTimecodeConflict)
      sortedConflictingIds ==
        sortAscending([ k \in 1..Len(conflictingSubtitles) |-> doc[conflictingSubtitles[k]].id ])
  IN IF conflictingSubtitles = <<>> THEN doc
     ELSE recomputed(fixConflictsLoop(doc, sortedConflictingIds, skipShort))

\* handleFixTimecodeConflicts of src/App.tsx, on the displayed segments.
handleFixTimecodeConflicts(doc) ==
  fixedConflicts(doc, filteredSubtitles(doc), FALSE)

\* handleFixTimecodeConflicts of the revision that skips the segments at or
\* under the minimum, on the segments the filters select.
handleFixTimecodeConflictsSkipping(prev) ==
  fixedConflicts(prev, currentFilteredSubtitles(prev), TRUE)

(***************************************************************************)
(* Inputs of the SRT codec: the files uploaded.  A file is given by the    *)
(* shapes of its blocks; block k carries the number k and starts at        *)
(* 2(k-1) s.  "ok" lasts 2.5 s and overlaps the block after it, "long"     *)
(* lasts 4.5 s and overlaps the two blocks after it, "noId" has no number  *)
(* line and "noTimecode" no timecode line.                                 *)
(***************************************************************************)
MaxBlocks == 3        \* blocks of an uploaded file (codec)
MaxSrtOps == 4        \* handlers run in a session (codec)

BlockShapes == { "ok", "long", "noId", "noTimecode" }

WellFormedShapes == { "ok", "long" }

\* "aa bb" and "a\nb"
blockText(shape) ==
  IF shape = "long" THEN <<"a", NL, "b">> ELSE <<"a", "a", SP, "b", "b">>

blockStart(k) == secondsToTimecode((k - 1) * 2000)

blockEnd(shape, k) ==
  secondsToTimecode((k - 1) * 2000 + (IF shape = "long" THEN 4500 ELSE 2500))

\* The text of block k of a file.
blockOf(shape, k) ==
  CASE shape \in WellFormedShapes ->
         srtBlock(k, blockStart(k), blockEnd(shape, k), blockText(shape))
    [] shape = "noId" ->
         timecodeString(blockStart(k)) \o <<SP, "-", "-", ">", SP>>
           \o timecodeString(blockEnd(shape, k)) \o <<NL>> \o blockText(shape)
    [] shape = "noTimecode" ->
         toString(k) \o <<NL>> \o blockText(shape)

\* The text of the file: the blocks with one empty line between them.
srtFile(shapes) ==
  join([ k \in 1..Len(shapes) |-> blockOf(shapes[k], k) ], <<NL, NL>>) \o <<NL>>

\* What the user types into the text box of the codec session: "", "b " and
\* "a<br><br>b".
SrtEditTexts ==
  { <<>>, <<"b", SP>>, <<"a", "<", "b", "r", ">", "<", "b", "r", ">", "b">> }

(***************************************************************************)
(* The editor: state after an upload, and one action per handler.          *)
(***************************************************************************)
Ids(doc) == { doc[i].id : i \in 1..Len(doc) }

limitVars == <<maxTotalChars, maxLineChars, minDurationSeconds, maxDurationSeconds>>

\* Bookkeeping of the history variables.
Ran(op, id, arg) ==
  /\ before' = translatedSubtitles
  /\ last' = [ op |-> op, id |-> id, arg |-> arg ]
  /\ ops' = ops + 1

InitWith(doc, limits) ==
  /\ translatedSubtitles = doc
  /\ previousSubtitles = Null
  /\ cascadePreview = Null
  /\ maxTotalChars = limits[1]
  /\ maxLineChars = limits[2]
  /\ minDurationSeconds = limits[3]
  /\ maxDurationSeconds = limits[4]
  /\ filters = {}
  /\ before = <<>>
  /\ last = [ op |-> "handleFileUpload", id |-> 0, arg |-> <<>> ]
  /\ ops = 0

Init ==
  \E n \in 1..MaxSegs, kind \in FileKinds :
    \E texts \in [1..n -> SampleTexts] :
      InitWith(handleFileUpload(parseSrt(n, kind, texts), <<74, 37, 1000, 7000>>),
               <<74, 37, 1000, 7000>>)

UpdateTimecode ==
  /\ ops < MaxOps
  /\ \E id \in Ids(translatedSubtitles), input \in TimecodeInputs :
       /\ translatedSubtitles' =
            handleUpdateTimecode(translatedSubtitles, id,
                                 secondsToTimecode(input[1]), secondsToTimecode(input[2]))
       /\ Ran("handleUpdateTimecode", id, input)
  /\ UNCHANGED <<previousSubtitles, cascadePreview, limitVars, filters>>

UpdateSubtitle ==
  /\ ops < MaxOps
  /\ \E id \in Ids(translatedSubtitles), newText \in EditTexts :
       /\ translatedSubtitles' = handleUpdateSubtitle(translatedSubtitles, id, newText)
       /\ Ran("handleUpdateSubtitle", id, newText)
  /\ previousSubtitles' = Null
  /\ UNCHANGED <<cascadePreview, limitVars, filters>>

UndoSubtitle ==
  /\ ops < MaxOps
  /\ \E id \in Ids(translatedSubtitles) :
       /\ translatedSubtitles' = handleUndoSubtitle(translatedSubtitles, id)
       /\ Ran("handleUndoSubtitle", id, <<>>)
  /\ UNCHANGED <<previousSubtitles, cascadePreview, limitVars, filters>>

RemoveBreaksFromFiltered ==
  /\ ops < MaxOps
  /\ translatedSubtitles' = handleRemoveBreaksFromFiltered(translatedSubtitles)
  /\ previousSubtitles' = Some(translatedSubtitles)
  /\ Ran("handleRemoveBreaksFromFiltered", 0, <<>>)
  /\ UNCHANGED <<cascadePreview, limitVars, filters>>

SplitFilteredLines ==
  /\ ops < MaxOps
  /\ translatedSubtitles' = handleSplitFilteredLines(translatedSubtitles)
  /\ previousSubtitles' = Some(translatedSubtitles)
  /\ Ran("handleSplitFilteredLines", 0, <<>>)
  /\ UNCHANGED <<cascadePreview, limitVars, filters>>

SplitSubtitle ==
  /\ ops < MaxOps
  /\ \E id \in Ids(translatedSubtitles) :
       /\ translatedSubtitles' = handleSplitSubtitle(translatedSubtitles, id)
       /\ Ran("handleSplitSubtitle", id, <<>>)
  /\ previousSubtitles' = Null
  /\ UNCHANGED <<cascadePreview, limitVars, filters>>

\* The merge button of a segment, and a call with an id that no segment has.
MergeSubtitleWithNext ==
  /\ ops < MaxOps
  /\ \E id \in Ids(translatedSubtitles) \cup {0} :
       /\ translatedSubtitles' = handleMergeSubtitleWithNext(translatedSubtitles, id)
       /\ Ran("handleMergeSubtitleWithNext", id, <<>>)
  /\ previousSubtitles' = Null
  /\ UNCHANGED <<cascadePreview, limitVars, filters>>

BulkSplitFiltered ==
  /\ ops < MaxOps
  /\ translatedSubtitles' = handleBulkSplitFiltered(translatedSubtitles)
  /\ previousSubtitles' = Null
  /\ Ran("handleBulkSplitFiltered", 0, <<>>)
  /\ UNCHANGED <<cascadePreview, limitVars, filters>>

\* The bulk merge button, shown while hasConsecutivePairsInFiltered holds.
BulkMergeFiltered ==
  /\ ops < MaxOps
  /\ hasConsecutivePairsInFiltered(translatedSubtitles)
  /\ translatedSubtitles' = handleBulkMergeFiltered(translatedSubtitles)
  /\ previousSubtitles' = Some(translatedSubtitles)
  /\ Ran("handleBulkMergeFiltered", 0, <<>>)
  /\ UNCHANGED <<cascadePreview, limitVars, filters>>

UndoWithin(bound) ==
  /\ ops < bound
  /\ previousSubtitles # Null
  /\ translatedSubtitles' = The(previousSubtitles)
  /\ previousSubtitles' = Null
  /\ Ran("handleUndo", 0, <<>>)
  /\ UNCHANGED <<cascadePreview, limitVars, filters>>

\* A filter checkbox, and the effect that follows a change of the filters.
ToggleFilterWithin(bound) ==
  /\ ops < bound
  /\ \E f \in Filters :
       /\ filters' = IF f \in filters THEN filters \ {f} ELSE filters \cup {f}
       /\ Ran("toggleFilter", 0, <<f>>)
  /\ translatedSubtitles' =
       [ i \in 1..Len(translatedSubtitles) |->
           [ translatedSubtitles[i] EXCEPT !.recentlyEdited = FALSE ] ]
  /\ UNCHANGED <<previousSubtitles, cascadePreview, limitVars>>

Undo == UndoWithin(MaxOps)

ToggleFilter == ToggleFilterWithin(MaxOps)

\* A limit control, and the effect that follows a change of the limits.
ChangeLimits ==
  /\ ops < MaxOps
  /\ \E limits \in Limits :
       /\ limits # <<maxTotalChars, maxLineChars, minDurationSeconds, maxDurationSeconds>>
       /\ maxTotalChars' = limits[1]
       /\ maxLineChars' = limits[2]
       /\ minDurationSeconds' = limits[3]
       /\ maxDurationSeconds' = limits[4]
       /\ translatedSubtitles' =
            recalculateWith(translatedSubtitles, limits[1], limits[3], limits[4])
       /\ Ran("changeLimits", 0, limits)
  /\ UNCHANGED <<previousSubtitles, cascadePreview, filters>>

Next ==
  \/ UpdateTimecode
  \/ UpdateSubtitle
  \/ UndoSubtitle
  \/ RemoveBreaksFromFiltered
  \/ SplitFilteredLines
  \/ SplitSubtitle
  \/ MergeSubtitleWithNext
  \/ BulkSplitFiltered
  \/ BulkMergeFiltered
  \/ Undo
  \/ ToggleFilter
  \/ ChangeLimits

Spec == Init /\ [][Next]_vars

(***************************************************************************)
(* The cascade view: state after an upload under the limits set, and the   *)
(* handlers of the cascade buttons, the undo button and the filters.       *)
(***************************************************************************)
InitCascade ==
  \E n \in 1..MaxCascadeSegs, limits \in CascadeLimits :
    \E durs \in [1..n -> CascadeDurations], gaps \in [1..n -> CascadeGaps] :
      /\ gaps[1] = 0
      /\ InitWith(handleFileUpload(parseCascadeSrt(n, durs, gaps), limits), limits)

CascadePreview ==
  /\ ops < MaxCascadeOps
  /\ \E r \in { handleCascadePreview(translatedSubtitles) } :
       /\ translatedSubtitles' = r.doc
       /\ cascadePreview' = Some(r.plan)
  /\ Ran("handleCascadePreview", 0, <<>>)
  /\ UNCHANGED <<previousSubtitles, limitVars, filters>>

ApplyCascadeFix ==
  /\ ops < MaxCascadeOps
  /\ cascadePreview # Null
  /\ The(cascadePreview).canBeFixed
  /\ \E r \in { handleApplyCascadeFix(translatedSubtitles) } :
       /\ translatedSubtitles' = r.doc
       /\ previousSubtitles' = Some(r.prev)
       /\ cascadePreview' = IF r.threw THEN cascadePreview ELSE Null
  /\ Ran("handleApplyCascadeFix", 0, <<>>)
  /\ UNCHANGED <<limitVars, filters>>

UndoCascade == UndoWithin(MaxCascadeOps)

ToggleFilterCascade == ToggleFilterWithin(MaxCascadeOps)

NextCascade ==
  \/ CascadePreview
  \/ ApplyCascadeFix
  \/ UndoCascade
  \/ ToggleFilterCascade

SpecCascade == InitCascade /\ [][NextCascade]_vars

(***************************************************************************)
(* The codec session: the application starts with no document, the user    *)
(* uploads a file, edits it, downloads it and uploads the downloaded file. *)
(* last.arg holds the shapes of the file uploaded, and after a download    *)
(* the text of the file written.                                           *)
(***************************************************************************)
InitSrt == InitWith(<<>>, <<74, 37, 1000, 7000>>)

\* handleFileUpload on a file picked by the user, the first step of a session.
FileUpload ==
  /\ ops = 0
  /\ \E n \in 1..MaxBlocks :
       \E shapes \in [1..n -> BlockShapes] :
         /\ translatedSubtitles' =
              handleFileUpload(parseSrtContent(srtFile(shapes)), limitVars)
         /\ Ran("handleFileUpload", 0, shapes)
  /\ previousSubtitles' = Null
  /\ UNCHANGED <<cascadePreview, limitVars, filters>>

UpdateSubtitleSrt ==
  /\ ops < MaxOps
  /\ \E id \in Ids(translatedSubtitles), newText \in SrtEditTexts :
       /\ translatedSubtitles' = handleUpdateSubtitle(translatedSubtitles, id, newText)
       /\ Ran("handleUpdateSubtitle", id, newText)
  /\ previousSubtitles' = Null
  /\ UNCHANGED <<cascadePreview, limitVars, filters>>

\* handleDownload: the text handed to the browser is formatSrt of the document
\* (the byte order mark in front of it is taken off again when the file is read).
Download ==
  /\ ops < MaxSrtOps
  /\ translatedSubtitles # <<>>
  /\ last.op # "handleDownload"
  /\ Ran("handleDownload", 0, formatSrt(translatedSubtitles))
  /\ UNCHANGED <<translatedSubtitles, previousSubtitles, cascadePreview, limitVars, filters>>

\* handleFileUpload on the file the last download wrote.
UploadDownloaded ==
  /\ ops < MaxSrtOps
  /\ last.op = "handleDownload"
  /\ translatedSubtitles' = handleFileUpload(parseSrtContent(last.arg), limitVars)
  /\ previousSubtitles' = Null
  /\ Ran("handleFileUpload", 0, last.arg)
  /\ UNCHANGED <<cascadePreview, limitVars, filters>>

NextSrt ==
  \/ FileUpload
  \/ UpdateSubtitleSrt
  \/ SplitSubtitle
  \/ MergeSubtitleWithNext
  \/ RemoveBreaksFromFiltered
  \/ Download
  \/ UploadDownloaded

SpecSrt == InitSrt /\ [][NextSrt]_vars

(***************************************************************************)
(* The timecode utilities as functions of their arguments: a timecode is   *)
(* drawn, and one utility is applied to it.  last.arg.in holds the         *)
(* arguments and last.arg.out the value returned.                          *)
(***************************************************************************)
\* The timecodes drawn: hours 00 and 01, minutes 00 and 59, seconds 00, 01
\* and 59, and seven values of the millisecond field.
TimecodeSamples ==
  { <<h, m, s, ms>> : h \in {0, 1}, m \in {0, 59}, s \in {0, 1, 59},
                      ms \in {0, 1, 2, 250, 500, 998, 999} }

\* The times added, in ms.
AddSamples == { 1, 500, 1000 }

\* The other three ends of the two ranges compared.
OverlapSamples == { <<0, 0, 0, 0>>, <<0, 0, 1, 0>>, <<0, 0, 1, 1>>, <<0, 0, 2, 0>> }

\* What the user types into a timecode box besides a timecode:
\* "5", "130", "1:30" and "x".
FreeTextInputs == { <<"5">>, <<"1", "3", "0">>, <<"1", ":", "3", "0">>, <<"x">> }

InitTimecode ==
  /\ translatedSubtitles = <<>>
  /\ previousSubtitles = Null
  /\ cascadePreview = Null
  /\ maxTotalChars = 74
  /\ maxLineChars = 37
  /\ minDurationSeconds = 1000
  /\ maxDurationSeconds = 7000
  /\ filters = {}
  /\ before = <<>>
  /\ \E t \in TimecodeSamples : last = [ op |-> "input", id |-> 0, arg |-> t ]
  /\ ops = 0

\* Bookkeeping: the utility op was applied to the arguments in and returned out.
Applied(op, in, out) ==
  /\ last' = [ op |-> op, id |-> 0, arg |-> [ in |-> in, out |-> out ] ]
  /\ ops' = ops + 1
  /\ UNCHANGED <<translatedSubtitles, previousSubtitles, cascadePreview,
                 limitVars, filters, before>>

SecondsToTimecode ==
  /\ last.op = "input"
  /\ Applied("secondsToTimecode", last.arg,
             secondsToTimecode(timecodeToSeconds(last.arg)))

SecondsToTimecodeRounded ==
  /\ last.op = "input"
  /\ Applied("secondsToTimecodeRounded", last.arg,
             secondsToTimecodeRounded(timecodeToSeconds(last.arg)))

FormatSecondsToTime ==
  /\ last.op = "input"
  /\ Applied("formatSecondsToTime", last.arg,
             formatSecondsToTime(parseTimeToSeconds(last.arg), 1))

AddTimeToTimecode ==
  /\ last.op = "input"
  /\ \E d \in AddSamples :
       Applied("addTimeToTimecode", <<last.arg, d>>, addTimeToTimecode(last.arg, d))

AddSecondsToTimecode ==
  /\ last.op = "input"
  /\ \E d \in AddSamples :
       Applied("addSecondsToTimecode", <<last.arg, d>>, addSecondsToTimecode(last.arg, d))

\* The two revisions of timecodesOverlap on the ranges [a, b] and [c, d], and
\* hasTimecodeConflict for the first of two segments with these ranges.
TimecodesOverlap ==
  /\ last.op = "input"
  /\ \E b \in OverlapSamples, c \in OverlapSamples, d \in OverlapSamples :
       Applied("timecodesOverlap", <<last.arg, b, c, d>>,
               [ later |-> timecodesOverlap(last.arg, b, c, d),
                 earlier |-> timecodesOverlapEarlier(last.arg, b, c, d),
                 conflict |->
                   hasTimecodeConflict(parsedSubtitle(1, last.arg, b, <<>>),
                                       << parsedSubtitle(1, last.arg, b, <<>>),
                                          parsedSubtitle(2, c, d, <<>>) >>) ])

\* The two revisions of parseTimecodeInput.
ParseTimecodeInput ==
  /\ last.op = "input"
  /\ \E input \in { timecodeString(last.arg) } \cup FreeTextInputs :
       Applied("parseTimecodeInput", input,
               [ later |-> parseTimecodeInput(input),
                 earlier |-> parseTimecodeInputEarlier(input) ])

\* handleTimecodeSave of the segment editor: the two boxes go through
\* parseTimecodeInput and handleUpdateTimecode stores what comes back as the
\* startTime and endTime of the segment.
handleTimecodeSave(editStartTime, editEndTime) ==
  [ startTime |-> parseTimecodeInput(editStartTime),
    endTime |-> parseTimecodeInput(editEndTime) ]

TimecodeSave ==
  /\ last.op = "input"
  /\ \E editStartTime \in { timecodeString(last.arg) } \cup FreeTextInputs,
        editEndTime \in { timecodeString(last.arg) } \cup FreeTextInputs :
       Applied("handleTimecodeSave", <<editStartTime, editEndTime>>,
               handleTimecodeSave(editStartTime, editEndTime))

NextTimecode ==
  \/ SecondsToTimecode
  \/ SecondsToTimecodeRounded
  \/ FormatSecondsToTime
  \/ AddTimeToTimecode
  \/ AddSecondsToTimecode
  \/ TimecodesOverlap
  \/ ParseTimecodeInput
  \/ TimecodeSave

SpecTimecode == InitTimecode /\ [][NextTimecode]_vars

(***************************************************************************)
(* The bulk merge under the format-error filter: state after an upload of   *)
(* up to MaxMergeSegs segments numbered 1,2,3.., some of them with a format *)
(* error, and the handlers the user reaches before and after the bulk merge.*)
(***************************************************************************)
MaxMergeSegs == 3     \* segments of an uploaded file (bulk merge)

\* "aa bb", ", bb"
MergeTexts ==
  { word("a", 2) \o <<SP>> \o word("b", 2),
    <<",", SP>> \o word("b", 2) }

\* The segments overlap or have gaps between them.
MergeKinds == { <<"dense", 2500, 2000>>, <<"dense", 1500, 2000>> }

InitBulkMerge ==
  \E n \in 1..MaxMergeSegs, kind \in MergeKinds :
    \E texts \in [1..n -> MergeTexts] :
      InitWith(handleFileUpload(parseSrt(n, kind, texts), <<74, 37, 1000, 7000>>),
               <<74, 37, 1000, 7000>>)

\* The format-error checkbox; the effect that clears recentlyEdited does not
\* depend on it.
ToggleFormatErrors ==
  /\ ops < MaxOps
  /\ filters' = IF "formatErrors" \in filters THEN filters \ {"formatErrors"}
                ELSE filters \cup {"formatErrors"}
  /\ Ran("toggleFormatErrors", 0, <<>>)
  /\ UNCHANGED <<translatedSubtitles, previousSubtitles, cascadePreview, limitVars>>

NextBulkMerge ==
  \/ ToggleFormatErrors
  \/ ToggleFilter
  \/ UpdateSubtitle
  \/ BulkMergeFiltered
  \/ Undo

SpecBulkMerge == InitBulkMerge /\ [][NextBulkMerge]_vars

(***************************************************************************)
(* The text utilities as functions: a text of up to MaxTextLen characters   *)
(* is drawn and one of the functions is applied to it.                      *)
(***************************************************************************)
MaxTextLen == 6       \* characters of a text handed to the text utilities

TextAlphabet == { "a", "b", SP, NL }

TextSamples == UNION { [1..n -> TextAlphabet] : n \in 0..MaxTextLen }

InitText ==
  /\ translatedSubtitles = <<>>
  /\ previousSubtitles = Null
  /\ cascadePreview = Null
  /\ maxTotalChars = 74
  /\ maxLineChars = 37
  /\ minDurationSeconds = 1000
  /\ maxDurationSeconds = 7000
  /\ filters = {}
  /\ before = <<>>
  /\ \E text \in TextSamples : last = [ op |-> "input", id |-> 0, arg |-> text ]
  /\ ops = 0

SplitTextIntelligently ==
  /\ last.op = "input"
  /\ Applied("splitTextIntelligently", last.arg, splitTextIntelligently(last.arg))

ValidateSplit ==
  /\ last.op = "input"
  /\ Applied("validateSplit", last.arg, validateSplit(last.arg))

NextText ==
  \/ SplitTextIntelligently
  \/ ValidateSplit

SpecText == InitText /\ [][NextText]_vars

(***************************************************************************)
(* The conflict fix: state after an upload of up to MaxFixSegs segments     *)
(* that follow back to back, overlap or leave gaps, and the handlers        *)
(* around the Fix Conflicts button.                                         *)
(***************************************************************************)
MaxFixSegs == 2       \* segments of an uploaded file (conflict fix)

\* <<duration of each segment, distance between two starts>> in ms.
FixKinds == { <<1000, 1000>>, <<1001, 1000>>, <<2500, 2000>>, <<1500, 2000>> }

parseFixSrt(n, kind) ==
  [ k \in 1..n |->
      parsedSubtitle(k,
                     secondsToTimecodeRounded((k - 1) * kind[2]),
                     secondsToTimecodeRounded((k - 1) * kind[2] + kind[1]),
                     word("a", 2) \o <<SP>> \o word("b", 2)) ]

InitFix ==
  \E n \in 1..MaxFixSegs, kind \in FixKinds :
    InitWith(handleFileUpload(parseFixSrt(n, kind), <<74, 37, 1000, 7000>>),
             <<74, 37, 1000, 7000>>)

\* The Fix Conflicts button, shown while a displayed segment is flagged.  The
\* document becomes what the handler of src/App.tsx returns; last.arg is
\* what the revision that skips short segments returns for the same click.
FixTimecodeConflicts ==
  /\ ops < MaxOps
  /\ \E k \in 1..Len(filteredSubtitles(translatedSubtitles)) :
       translatedSubtitles[filteredSubtitles(translatedSubtitles)[k]].hasTimecodeConflict
  /\ translatedSubtitles' = handleFixTimecodeConflicts(translatedSubtitles)
  /\ previousSubtitles' = Some(translatedSubtitles)
  /\ Ran("handleFixTimecodeConflicts", 0,
         handleFixTimecodeConflictsSkipping(translatedSubtitles))
  /\ UNCHANGED <<cascadePreview, limitVars, filters>>

NextFix ==
  \/ FixTimecodeConflicts
  \/ UpdateTimecode
  \/ ToggleFilter
  \/ Undo

SpecFix == InitFix /\ [][NextFix]_vars

(***************************************************************************)
(* Properties of the cascade planner, checked under SpecCascade.  The      *)
(* document of every reachable state serves as the timeline handed to the  *)
(* functions.                                                              *)
(***************************************************************************)
timesOf(doc) == [ i \in 1..Len(doc) |-> <<doc[i].startTime, doc[i].endTime>> ]

\* C1 (cascade effectiveness): for every timeline for which
\* calculateCascadePlan reports canBeFixed, every segment that was shorter
\* than minDurationSeconds before applyCascadeFix lasts at least
\* minDurationSeconds - 0.001 s in the array applyCascadeFix returns.
C1_CascadeEffectiveness ==
  calculateCascadePlan(translatedSubtitles, minDurationSeconds).canBeFixed
    => \A i \in 1..Len(translatedSubtitles) :
         durationOf(translatedSubtitles[i]) < minDurationSeconds
           => durationOf(applyCascadeFix(translatedSubtitles, minDurationSeconds).value[i])
                >= minDurationSeconds - Epsilon

\* C2 (cascade all-or-nothing): when the plan computed by the preview is not
\* feasible, it has no steps, affects no segment, names a segment of the
\* document as the blocker, and the start and end times of all segments are
\* what they were before the plan was computed; applyCascadeFix attempted on
\* that timeline leaves the times alone as well.
C2_CascadeAllOrNothing ==
  (last.op = "handleCascadePreview" /\ ~The(cascadePreview).canBeFixed)
    => /\ The(cascadePreview).steps = <<>>
       /\ The(cascadePreview).totalAffected = 0
       /\ The(cascadePreview).reason # Null
       /\ The(The(cascadePreview).reason) \in Ids(before)
       /\ timesOf(translatedSubtitles) = timesOf(before)
       /\ timesOf(applyCascadeFix(before, minDurationSeconds).subtitles) = timesOf(before)

\* The timeline of the end-to-end scenario: 00:00:00,000 --> 00:00:00,500 and
\* 00:00:00,500 --> 00:00:05,000.
ScenarioTimeline ==
  << <<<<0, 0, 0, 0>>, <<0, 0, 0, 500>>>>, <<<<0, 0, 0, 500>>, <<0, 0, 5, 0>>>> >>

\* C3 (end-to-end scenario): for the scenario timeline and a minimum of 1 s
\* the plan is feasible and is one extend of segment 1 by 0.5 s and one
\* shorten of segment 2 by 0.5 s, two segments affected; applyCascadeFix
\* returns segment 1 as 00:00:00,000 --> 00:00:01,000 lasting exactly 1 s and
\* segment 2 as 00:00:01,000 --> 00:00:05,000, both flagged as in conflict.
C3_EndToEndScenario ==
  (timesOf(translatedSubtitles) = ScenarioTimeline /\ minDurationSeconds = 1000)
    => /\ calculateCascadePlan(translatedSubtitles, 1000).canBeFixed
       /\ calculateCascadePlan(translatedSubtitles, 1000).steps
            = << [ subtitleId |-> translatedSubtitles[1].id,
                   action |-> "extend", timeChange |-> 500 ],
                 [ subtitleId |-> translatedSubtitles[2].id,
                   action |-> "shorten", timeChange |-> 500 ] >>
       /\ calculateCascadePlan(translatedSubtitles, 1000).totalAffected = 2
       /\ LET fixed == applyCascadeFix(translatedSubtitles, 1000).value
          IN /\ timesOf(fixed)
                  = << <<<<0, 0, 0, 0>>, <<0, 0, 1, 0>>>>, <<<<0, 0, 1, 0>>, <<0, 0, 5, 0>>>> >>
             /\ fixed[1].duration = 1000
             /\ fixed[1].hasTimecodeConflict
             /\ fixed[2].hasTimecodeConflict

\* C10 (flags follow the configuration): after an operation that produces
\* segments (here the upload and the cascade apply) every segment has
\* isTooShort = (duration < minDurationSeconds) and
\* isTooLong = (duration > maxDurationSeconds) for the configured limits.
C10_FlagsFollowConfiguration ==
  last.op \in { "handleFileUpload", "handleApplyCascadeFix" }
    => \A i \in 1..Len(translatedSubtitles) :
         /\ translatedSubtitles[i].isTooShort
              = (durationOf(translatedSubtitles[i]) < minDurationSeconds)
         /\ translatedSubtitles[i].isTooLong
              = (durationOf(translatedSubtitles[i]) > maxDurationSeconds)

(***************************************************************************)
(* Properties of the editor, checked under Spec.  before is the document   *)
(* the last handler started from and last.id the id it was called with.    *)
(***************************************************************************)
\* The segment count, ids, texts and times of a document.
contentOf(doc) ==
  [ i \in 1..Len(doc) |-> <<doc[i].id, doc[i].text, doc[i].startTime, doc[i].endTime>> ]

\* The last handler was the single split and it split a segment.
SplitHappened ==
  /\ last.op = "handleSplitSubtitle"
  /\ Len(translatedSubtitles) = Len(before) + 1

\* C4 (split conservation): when handleSplitSubtitle splits the segment at
\* position k, the first half starts where the original started, the second
\* half ends where the original ended, and the first half ends at the very
\* timecode at which the second half starts.
C4_SplitConservation ==
  SplitHappened
    => LET k == findIndex(before, last.id)
       IN /\ translatedSubtitles[k].startTime = before[k].startTime
          /\ translatedSubtitles[k + 1].endTime = before[k].endTime
          /\ translatedSubtitles[k].endTime = translatedSubtitles[k + 1].startTime

\* A split happened strictly inside a segment that does not start at zero.
C4_Witness ==
  /\ SplitHappened
  /\ LET k == findIndex(before, last.id)
     IN /\ timecodeToSeconds(before[k].startTime) > 0
        /\ timecodeToSeconds(before[k].startTime)
             < timecodeToSeconds(translatedSubtitles[k].endTime)
        /\ timecodeToSeconds(translatedSubtitles[k].endTime)
             < timecodeToSeconds(before[k].endTime)

\* C5 (split guard): handleSplitSubtitle called on a segment whose text
\* validateSplit rejects (fewer than two words, or at most 10 characters
\* after trimming) leaves the segment count, ids, texts and times as they
\* were.
C5_SplitGuard ==
  (/\ last.op = "handleSplitSubtitle"
   /\ ~validateSplit(before[findIndex(before, last.id)].text))
    => contentOf(translatedSubtitles) = contentOf(before)

\* The last handler was the merge, called on a segment that has a next one.
MergeCalled ==
  /\ last.op = "handleMergeSubtitleWithNext"
  /\ findIndex(before, last.id) > 0
  /\ findIndex(before, last.id) < Len(before)

\* C6 (merge conservation): after handleMergeSubtitleWithNext on the segment
\* A at position k with the next segment B, the document is one segment
\* shorter, and the segment at position k starts where A started and ends
\* where B ended, whether or not A and B were adjacent in time.
C6_MergeConservation ==
  MergeCalled
    => LET k == findIndex(before, last.id)
       IN /\ Len(translatedSubtitles) = Len(before) - 1
          /\ translatedSubtitles[k].startTime = before[k].startTime
          /\ translatedSubtitles[k].endTime = before[k + 1].endTime

\* A merge of two segments with a gap between them, and of two that overlap.
C6_Witness ==
  /\ MergeCalled
  /\ LET k == findIndex(before, last.id)
     IN /\ before[k].endTime # before[k + 1].startTime
        /\ before[k].endTime # before[k + 1].endTime
        /\ Len(translatedSubtitles) = Len(before) - 1

Dense(doc) == \A i \in 1..Len(doc) : doc[i].id = i

StructuralOps ==
  { "handleSplitSubtitle", "handleMergeSubtitleWithNext",
    "handleBulkSplitFiltered", "handleBulkMergeFiltered" }

\* C7 (dense ids): after a split, merge, bulk split or bulk merge that
\* changed the number of segments, the segment at position i has id i,
\* whatever ids the uploaded file carried; and no handler other than the
\* global undo, which puts an earlier document back, takes dense ids away, so
\* that the ids stay 1..N through any sequence of these operations.
C7_DenseIds ==
  /\ (last.op \in StructuralOps /\ Len(translatedSubtitles) # Len(before))
       => Dense(translatedSubtitles)
  /\ (last.op \notin { "handleFileUpload", "handleUndo" } /\ Dense(before))
       => Dense(translatedSubtitles)

\* A bulk split of a file whose ids were not 1..N split two segments.
C7_Witness ==
  /\ last.op = "handleBulkSplitFiltered"
  /\ ~Dense(before)
  /\ Len(translatedSubtitles) = Len(before) + 2
  /\ Dense(translatedSubtitles)

\* C8 (charCount is derived): in every state every segment's charCount is the
\* number of characters of its text other than line breaks, and its isLong
\* is charCount > maxTotalChars.
C8_CharCountDerived ==
  \A i \in 1..Len(translatedSubtitles) :
    /\ translatedSubtitles[i].charCount = charCountOf(translatedSubtitles[i].text)
    /\ translatedSubtitles[i].isLong = (translatedSubtitles[i].charCount > maxTotalChars)

\* C9 (global conflict refresh): after handleUpdateTimecode every segment's
\* hasTimecodeConflict is what hasTimecodeConflict returns for it against
\* the document as the edit left it.
C9_GlobalConflictRefresh ==
  last.op = "handleUpdateTimecode"
    => \A i \in 1..Len(translatedSubtitles) :
         translatedSubtitles[i].hasTimecodeConflict
           = hasTimecodeConflict(translatedSubtitles[i], translatedSubtitles)

\* C11 (undo slot cleared on structural change): after handleSplitSubtitle,
\* handleMergeSubtitleWithNext, handleBulkSplitFiltered or
\* handleBulkMergeFiltered has run, the global undo slot previousSubtitles is
\* empty, so that a global undo that follows has nothing to put back.
C11_UndoSlotCleared ==
  last.op \in StructuralOps => previousSubtitles = Null

(***************************************************************************)
(* Properties of the SRT codec, checked under SpecSrt.                     *)
(***************************************************************************)
\* C12 (SRT round trip): when a document with the ids 1..N is downloaded and
\* the file written is uploaded, the document parsed has the same number of
\* segments, each with the id, start time, end time and text of the segment
\* at its position in the document downloaded.
C12_SrtRoundTrip ==
  (last.op = "handleFileUpload" /\ ops > 1 /\ Dense(before))
    => contentOf(translatedSubtitles) = contentOf(before)

\* The positions of the blocks of a file that have a number line and a
\* timecode line.
wellFormedBlocks(shapes) ==
  SelectSeq([ k \in 1..Len(shapes) |-> k ], LAMBDA k : shapes[k] \in WellFormedShapes)

\* C13 (malformed blocks are skipped locally): the upload of a file returns
\* one segment for each block that has a number line and a timecode line, in
\* the order of the file, each with the number, times and text of its own
\* block, whatever blocks without a number line or without a timecode line
\* stand before, between or after them; and every segment's conflict flag is
\* hasTimecodeConflict against all the segments returned.
C13_MalformedBlocksSkipped ==
  (last.op = "handleFileUpload" /\ ops = 1)
    => LET kept == wellFormedBlocks(last.arg)
       IN /\ contentOf(translatedSubtitles)
               = [ j \in 1..Len(kept) |->
                     << kept[j], blockText(last.arg[kept[j]]), blockStart(kept[j]),
                        blockEnd(last.arg[kept[j]], kept[j]) >> ]
          /\ \A i \in 1..Len(translatedSubtitles) :
               translatedSubtitles[i].hasTimecodeConflict
                 = hasTimecodeConflict(translatedSubtitles[i], translatedSubtitles)

\* A file whose second block has no number line was uploaded: blocks 1 and 3
\* were returned, and they overlap each other.
C13_Witness ==
  /\ last.op = "handleFileUpload"
  /\ ops = 1
  /\ last.arg = <<"long", "noId", "ok">>
  /\ Len(translatedSubtitles) = 2
  /\ translatedSubtitles[2].id = 3
  /\ translatedSubtitles[1].hasTimecodeConflict

(***************************************************************************)
(* Properties of the timecode utilities, checked under SpecTimecode.       *)
(***************************************************************************)
\* C14 (timecode round trip): each formatter (secondsToTimecode in its two
\* revisions, and formatSecondsToTime), applied to the number of seconds
\* parsed from a valid timecode, gives that timecode back.
C14_TimecodeRoundTrip ==
  last.op \in { "secondsToTimecode", "secondsToTimecodeRounded", "formatSecondsToTime" }
    => last.arg.out = last.arg.in

\* The timecode of a whole number of milliseconds.
timecodeAt(totalMs) ==
  << totalMs \div 3600000, (totalMs % 3600000) \div 60000,
     (totalMs % 60000) \div 1000, totalMs % 1000 >>

\* C15 (no silent drift): adding d milliseconds to a timecode of T
\* milliseconds in all, with addTimeToTimecode or addSecondsToTimecode, gives
\* the timecode of T + d milliseconds, carried into the seconds, minutes and
\* hours, with a millisecond field in 000..999.
C15_NoSilentDrift ==
  last.op \in { "addTimeToTimecode", "addSecondsToTimecode" }
    => /\ last.arg.out = timecodeAt(timecodeToSeconds(last.arg.in[1]) + last.arg.in[2])
       /\ last.arg.out[4] \in 0..999

\* C16 (overlap with adjacency): timecodesOverlap(startA, endA, startB, endB)
\* is true exactly when startA < endB and startB < endA, or endA = startB, or
\* endB = startA, in each revision of the function; and hasTimecodeConflict
\* of a segment against one other segment is true exactly then.
C16_OverlapWithAdjacency ==
  last.op = "timecodesOverlap"
    => LET startA == timecodeToSeconds(last.arg.in[1])
           endA == timecodeToSeconds(last.arg.in[2])
           startB == timecodeToSeconds(last.arg.in[3])
           endB == timecodeToSeconds(last.arg.in[4])
           expected == (startA < endB /\ startB < endA) \/ endA = startB \/ endB = startA
       IN /\ last.arg.out.later = expected
          /\ last.arg.out.earlier = expected
          /\ last.arg.out.conflict = expected

\* C17 (overlap symmetry): timecodesOverlap(a, b, c, d) equals
\* timecodesOverlap(c, d, a, b), in each revision of the function; and of two
\* segments, hasTimecodeConflict flags the first against the second exactly
\* when it flags the second against the first.
C17_OverlapSymmetry ==
  last.op = "timecodesOverlap"
    => LET a == last.arg.in[1]
           b == last.arg.in[2]
           c == last.arg.in[3]
           d == last.arg.in[4]
           both == << parsedSubtitle(1, a, b, <<>>), parsedSubtitle(2, c, d, <<>>) >>
       IN /\ last.arg.out.later = timecodesOverlap(c, d, a, b)
          /\ last.arg.out.earlier = timecodesOverlapEarlier(c, d, a, b)
          /\ last.arg.out.conflict = hasTimecodeConflict(both[2], both)

\* The ranges [0 s, 1 s] and [1 s, 2 s], consecutive in the order given only,
\* were compared and found in conflict.
C17_Witness ==
  /\ last.op = "timecodesOverlap"
  /\ last.arg.in = << <<0, 0, 0, 0>>, <<0, 0, 1, 0>>, <<0, 0, 1, 0>>, <<0, 0, 2, 0>> >>
  /\ last.arg.out.later
  /\ last.arg.out.conflict

\* C18 (normalization is the identity on valid input): parseTimecodeInput, in
\* each revision, returns a string of the form HH:MM:SS,mmm as it was given,
\* the millisecond field included.
C18_ValidInputUnchanged ==
  (last.op = "parseTimecodeInput" /\ isValidTimecode(last.arg.in))
    => /\ last.arg.out.later = last.arg.in
       /\ last.arg.out.earlier = last.arg.in

(***************************************************************************)
(* Further properties of the editor, checked under Spec.                   *)
(***************************************************************************)
\* C19 (invalid merge is a silent no-op): handleMergeSubtitleWithNext called
\* with an id that no segment has, or with an id whose segment (the first
\* one that has it) is the last of the document, leaves the document as it
\* was: the same segments with the same ids, texts, times and flags.
C19_InvalidMergeNoOp ==
  (/\ last.op = "handleMergeSubtitleWithNext"
   /\ findIndex(before, last.id) \in { 0, Len(before) })
    => translatedSubtitles = before

\* The merge was called on the last of two segments.
C19_Witness ==
  /\ last.op = "handleMergeSubtitleWithNext"
  /\ Len(before) = 2
  /\ findIndex(before, last.id) = 2
  /\ ~before[2].recentlyEdited
  /\ translatedSubtitles = before

(***************************************************************************)
(* Properties of the bulk merge, checked under SpecBulkMerge.  before is    *)
(* the document the handler received; the filters are those of the click.   *)
(***************************************************************************)

\* The ids of the segments displayed when the handler ran.
shownIds(doc) ==
  { doc[filteredSubtitles(doc)[k]].id : k \in 1..Len(filteredSubtitles(doc)) }

\* Segment sub of the result is segment i of the document, left as it was.
keptFrom(sub, doc, i) ==
  /\ sub.text = doc[i].text
  /\ sub.startTime = doc[i].startTime
  /\ sub.endTime = doc[i].endTime

\* Segment sub of the result is the merge of two displayed segments of the
\* document whose ids differ by 1.
mergedFromShown(sub, doc) ==
  \E i \in 1..Len(doc), k \in 1..Len(doc) :
    /\ doc[i].id \in shownIds(doc)
    /\ doc[k].id \in shownIds(doc)
    /\ doc[k].id = doc[i].id + 1
    /\ sub.text = cleanSpaces(doc[i].text \o <<SP>> \o doc[k].text)
    /\ sub.startTime = doc[i].startTime
    /\ sub.endTime = doc[k].endTime

\* C20: handleBulkMergeFiltered merges two segments only if both are in the
\* set displayed to the user and their ids differ by exactly 1; the length
\* of the document decreases by the number of merged pairs; a segment that
\* is not displayed is never merged, also when the only active filter is the
\* format-error filter or when the set holds sticky recently-edited segments.
C20_BulkMergeWithinFilteredSet ==
  last.op = "handleBulkMergeFiltered" =>
    /\ \A j \in 1..Len(translatedSubtitles) :
         \/ \E i \in 1..Len(before) : keptFrom(translatedSubtitles[j], before, i)
         \/ mergedFromShown(translatedSubtitles[j], before)
    /\ \A i \in 1..Len(before) :
         before[i].id \notin shownIds(before) =>
           \E j \in 1..Len(translatedSubtitles) :
             keptFrom(translatedSubtitles[j], before, i)
    /\ Len(before) - Len(translatedSubtitles) =
         Cardinality({ j \in 1..Len(translatedSubtitles) :
                         \A i \in 1..Len(before) :
                           ~keptFrom(translatedSubtitles[j], before, i) })

(***************************************************************************)
(* Further properties of the cascade planner, checked under SpecCascade.   *)
(***************************************************************************)

\* Sum of the timeChange of the steps of the kind action on the segment id.
RECURSIVE stepSum(_, _, _)
stepSum(steps, id, action) ==
  IF steps = <<>> THEN 0
  ELSE (IF Head(steps).subtitleId = id /\ Head(steps).action = action
        THEN Head(steps).timeChange ELSE 0)
       + stepSum(Tail(steps), id, action)

\* C21: computing a cascade plan leaves the startTime and endTime of every
\* segment of the timeline it was given unchanged, in calculateCascadePlan
\* and in the preview handler that calls it on the document; only applying
\* the plan changes times, and it applies each step once: the end of a
\* segment grows by the sum of its extend and move steps.
C21_PlanningLeavesTimes ==
  /\ timesOf(calculateCascadePlan(translatedSubtitles, minDurationSeconds).subtitles)
       = timesOf(translatedSubtitles)
  /\ last.op = "handleCascadePreview"
       => timesOf(translatedSubtitles) = timesOf(before)
  /\ calculateCascadePlan(translatedSubtitles, minDurationSeconds).canBeFixed
       => \A i \in 1..Len(translatedSubtitles) :
            timecodeToSeconds(
              applyCascadeFix(translatedSubtitles, minDurationSeconds).value[i].endTime)
            = timecodeToSeconds(translatedSubtitles[i].endTime)
              + stepSum(calculateCascadePlan(translatedSubtitles, minDurationSeconds).steps,
                        translatedSubtitles[i].id, "extend")
              + stepSum(calculateCascadePlan(translatedSubtitles, minDurationSeconds).steps,
                        translatedSubtitles[i].id, "move")

\* The text and the times of the segments of a document.
textAndTimesOf(doc) ==
  [ i \in 1..Len(doc) |-> <<doc[i].text, doc[i].startTime, doc[i].endTime>> ]

\* C22: after an operation that saves the undo snapshot (here the cascade
\* fix), the snapshot a global undo puts back holds every segment's text,
\* startTime and endTime as they were before the operation; the undo leaves
\* the slot empty, so a second undo does nothing.
C22_UndoRestoresDocument ==
  /\ (last.op = "handleApplyCascadeFix" /\ previousSubtitles # Null)
       => textAndTimesOf(The(previousSubtitles)) = textAndTimesOf(before)
  /\ last.op = "handleUndo"
       => /\ previousSubtitles = Null
          /\ ~ENABLED UndoCascade

\* C23: after a single split and after a bulk split, hasTimecodeConflict of
\* every segment equals a fresh evaluation over the renumbered document; the
\* two halves, which share the split point, are both flagged.
C23_SplitRefreshesConflicts ==
  (last.op \in { "handleSplitSubtitle", "handleBulkSplitFiltered" }
     /\ Len(translatedSubtitles) > Len(before))
    => \A i \in 1..Len(translatedSubtitles) :
         translatedSubtitles[i].hasTimecodeConflict
           = hasTimecodeConflict(translatedSubtitles[i], translatedSubtitles)

\* Segment i of the document doc was split once: its two halves stand next to
\* each other in the result.
splitOnceIn(result, doc, i) ==
  \E j \in 1..(Len(result) - 1) :
    /\ result[j].text = splitTextIntelligently(doc[i].text).firstPart
    /\ result[j + 1].text = splitTextIntelligently(doc[i].text).secondPart
    /\ result[j].startTime = doc[i].startTime
    /\ result[j].endTime = result[j + 1].startTime
    /\ result[j + 1].endTime = doc[i].endTime

\* C24: handleBulkSplitFiltered splits every splittable member of the
\* filtered set exactly once and no other segment: a document of N segments
\* with k splittable filtered members becomes N + k segments, the halves of
\* every target are in the result and every other segment is kept as it was,
\* also when two targets have consecutive ids.
C24_BulkSplitOnce ==
  last.op = "handleBulkSplitFiltered" =>
    LET targets == splittableSubtitles(before)
        isTarget(i) == \E k \in 1..Len(targets) : targets[k] = i
    IN /\ Len(translatedSubtitles) = Len(before) + Len(targets)
       /\ \A i \in 1..Len(before) :
            IF isTarget(i)
            THEN splitOnceIn(translatedSubtitles, before, i)
            ELSE \E j \in 1..Len(translatedSubtitles) :
                   keptFrom(translatedSubtitles[j], before, i)

\* C25: when the plan for a timeline is one use of a gap (an extend of the
\* earlier segment and a move of the later one by g), then in the array
\* applyCascadeFix returns the later segment lasts as long as before, the gap
\* between the two is smaller by g, and the later segment does not reach
\* into the segment after it if it did not before.
C25_GapBorrowingClosesGap ==
  LET plan == calculateCascadePlan(translatedSubtitles, minDurationSeconds)
  IN (/\ plan.canBeFixed
      /\ Len(plan.steps) = 2
      /\ plan.steps[2].action = "move")
       => LET e == findIndex(translatedSubtitles, plan.steps[1].subtitleId)
              l == findIndex(translatedSubtitles, plan.steps[2].subtitleId)
              g == plan.steps[2].timeChange
              fixed == applyCascadeFix(translatedSubtitles, minDurationSeconds).value
          IN /\ durationOf(fixed[l]) = durationOf(translatedSubtitles[l])
             /\ calculateGap(fixed[e], fixed[l])
                  = calculateGap(translatedSubtitles[e], translatedSubtitles[l]) - g
             /\ (l < Len(fixed)
                   /\ timecodeToSeconds(translatedSubtitles[l].endTime)
                        <= timecodeToSeconds(translatedSubtitles[l + 1].startTime))
                  => timecodeToSeconds(fixed[l].endTime)
                       <= timecodeToSeconds(fixed[l + 1].startTime)

\* No segment of doc that lasted at least minDurationSeconds is shorter than
\* that in out.
keepsMinimum(doc, out) ==
  \A i \in 1..Len(doc) :
    durationOf(doc[i]) >= minDurationSeconds => durationOf(out[i]) >= minDurationSeconds

\* C26: each shorten step takes at most the slack of its donor, so after a
\* feasible plan is applied, by applyCascadeFix and by the handler that calls
\* it, no segment that lasted at least minDurationSeconds before the fix is
\* shorter than minDurationSeconds.
C26_DonorsKeepMinimum ==
  /\ calculateCascadePlan(translatedSubtitles, minDurationSeconds).canBeFixed
       => keepsMinimum(translatedSubtitles,
                       applyCascadeFix(translatedSubtitles, minDurationSeconds).value)
  /\ (last.op = "handleApplyCascadeFix" /\ cascadePreview = Null)
       => keepsMinimum(before, translatedSubtitles)

(***************************************************************************)
(* Properties of the text utilities, checked under SpecText.                *)
(***************************************************************************)

\* The positions of the spaces of a text: its word boundaries.
boundariesOf(flat) == { p \in 1..Len(flat) : flat[p] = SP }

\* C27: for a text of at least two space-separated words
\* splitTextIntelligently cuts at the word boundary whose first part is
\* closest in length to half the flattened trimmed text, at the earliest one
\* on ties; firstPart, a space and secondPart make up the flattened trimmed
\* text, both parts are non-empty and firstRatio is len(firstPart) /
\* (len(firstPart) + len(secondPart)), strictly between 0 and 1.  For a text
\* of a single word it returns the text, an empty secondPart and ratio 1.
C27_BalancedSplit ==
  last.op = "splitTextIntelligently" =>
    LET text == last.arg.in
        out == last.arg.out
        flat == trim([ i \in 1..Len(text) |-> IF text[i] = NL THEN SP ELSE text[i] ])
        cut == Len(out.firstPart) + 1
    IN IF boundariesOf(flat) = {}
       THEN /\ out.firstPart = text
            /\ out.secondPart = <<>>
            /\ out.firstRatio = <<1, 1>>
       ELSE /\ out.firstPart \o <<SP>> \o out.secondPart = flat
            /\ out.firstPart # <<>>
            /\ out.secondPart # <<>>
            /\ cut \in boundariesOf(flat)
            /\ \A q \in boundariesOf(flat) :
                 \/ Abs(2 * (cut - 1) - Len(flat)) < Abs(2 * (q - 1) - Len(flat))
                 \/ /\ Abs(2 * (cut - 1) - Len(flat)) = Abs(2 * (q - 1) - Len(flat))
                    /\ cut <= q
            /\ out.firstRatio = << Len(out.firstPart),
                                   Len(out.firstPart) + Len(out.secondPart) >>
            /\ 0 < out.firstRatio[1]
            /\ out.firstRatio[1] < out.firstRatio[2]

\* The text "aa b a", whose two boundaries are equally far from the middle,
\* was split at the first of them.
C27_Witness ==
  /\ last.op = "splitTextIntelligently"
  /\ last.arg.in = <<"a", "a", SP, "b", SP, "a">>
  /\ last.arg.out.firstPart = <<"a", "a">>
  /\ last.arg.out.secondPart = <<"b", SP, "a">>

\* The segments of a timeline follow each other by start time, and no two of
\* them share more than an end point.
orderedByTime(doc) ==
  \A i \in 1..(Len(doc) - 1) :
    timecodeToSeconds(doc[i].startTime) <= timecodeToSeconds(doc[i + 1].startTime)

noStrictOverlap(doc) ==
  \A i \in 1..Len(doc), j \in 1..Len(doc) :
    i < j => ~(/\ timecodeToSeconds(doc[i].startTime) < timecodeToSeconds(doc[j].endTime)
               /\ timecodeToSeconds(doc[j].startTime) < timecodeToSeconds(doc[i].endTime))

\* C28: applying a feasible plan to a timeline that is ordered by time and
\* has no strictly overlapping segments gives a timeline with no strictly
\* overlapping segments, for applyCascadeFix on the timeline and for the
\* handler that runs it on the filtered segments of the document.
C28_NoNewOverlap ==
  /\ (/\ orderedByTime(translatedSubtitles)
      /\ noStrictOverlap(translatedSubtitles)
      /\ calculateCascadePlan(translatedSubtitles, minDurationSeconds).canBeFixed)
       => noStrictOverlap(applyCascadeFix(translatedSubtitles, minDurationSeconds).value)
  /\ (/\ last.op = "handleApplyCascadeFix"
      /\ cascadePreview = Null
      /\ orderedByTime(before)
      /\ noStrictOverlap(before))
       => noStrictOverlap(translatedSubtitles)

(***************************************************************************)
(* Further properties of the timecode utilities, checked under             *)
(* SpecTimecode.                                                            *)
(***************************************************************************)

\* C29: the startTime and endTime a timecode save stores in the document are
\* strings of the form HH:MM:SS,mmm whatever the user typed; an input that
\* cannot be interpreted is not stored as it was typed.
C29_TimecodesWellFormed ==
  last.op = "handleTimecodeSave"
    => /\ isValidTimecode(last.arg.out.startTime)
       /\ isValidTimecode(last.arg.out.endTime)

(***************************************************************************)
(* Properties of the conflict fix, checked under SpecFix.                   *)
(***************************************************************************)

\* What the claim allows the fix to turn doc into: only the end of
\* conflicting displayed segments longer than the minimum changes, by 1 ms
\* and not below 0; no segment becomes too short; the flags are fresh.
fixesOnlyConflicts(doc, fixed) ==
  /\ Len(fixed) = Len(doc)
  /\ \A i \in 1..Len(doc) :
       /\ fixed[i].startTime = doc[i].startTime
       /\ fixed[i].text = doc[i].text
       /\ \/ fixed[i].endTime = doc[i].endTime
          \/ /\ doc[i].hasTimecodeConflict
             /\ doc[i].id \in shownIds(doc)
             /\ durationOf(doc[i]) > minDurationSeconds
             /\ timecodeToSeconds(fixed[i].endTime)
                  = Max(0, timecodeToSeconds(doc[i].endTime) - 1)
       /\ durationOf(doc[i]) <= minDurationSeconds => fixed[i].endTime = doc[i].endTime
       /\ ~doc[i].isTooShort => (durationOf(fixed[i]) >= minDurationSeconds /\ ~fixed[i].isTooShort)
       /\ fixed[i].hasTimecodeConflict = hasTimecodeConflict(fixed[i], fixed)

\* C30: handleFixTimecodeConflicts, in each revision, changes only the
\* endTime of conflicting members of the filtered set, reduces it by exactly
\* 1 ms and never below 00:00:00,000, leaves segments lasting
\* minDurationSeconds or less untouched, so no segment that was not too
\* short is too short afterwards, and the conflict flags of the whole
\* document are fresh.
C30_FixKeepsMinimum ==
  last.op = "handleFixTimecodeConflicts"
    => /\ fixesOnlyConflicts(before, translatedSubtitles)
       /\ fixesOnlyConflicts(before, last.arg)

====
